---- MODULE Spec2Model ----
(***************************************************************************)
(* Model of the CMS-AI backend (FastAPI + MongoDB + Redis).                *)
(*                                                                         *)
(* The module holds one specification per subsystem; each specification    *)
(* moves only its own variables and leaves the others at their initial     *)
(* value:                                                                  *)
(*   SpecEmail  email_campaigns / email_scheduled and the nine mutating    *)
(*              email-marketing endpoints                                  *)
(*   SpecPosts  scheduled_posts and the branding content-calendar          *)
(*              endpoints                                                  *)
(*   SpecRecs   recommendations, the Redis entries of the ads              *)
(*              recommendation list and the status PATCH                   *)
(*   SpecPred   predictions, the Redis entry of the ads prediction         *)
(*              endpoint and the wall clock                                *)
(*   SpecCache  class RedisService in front of a Redis server that may     *)
(*              stop answering at any moment                               *)
(*   SpecApp    the lifespan start-up and GET /health, with MongoDB and    *)
(*              Redis servers that may stop answering                      *)
(*   SpecInbox  inbox_messages, the Redis entries of the message list and  *)
(*              of the statistics, and the inbox endpoints                 *)
(*   SpecCalls  cold_calls, the Redis entries of the overview and of the   *)
(*              agents summary, and the call-record endpoints              *)
(*   SpecAgg    AdsAggregator.aggregate_all_platforms and                  *)
(*              DashboardAggregator.get_dashboard_overview, called with    *)
(*              every combination of failing queries                       *)
(*                                                                         *)
(*   SpecLib    the route table and the pure helpers (pagination, date     *)
(*              windows, forecast, funnel), each applied once to every     *)
(*              input of a bounded set                                     *)
(*   SpecEmailReads  SpecEmail together with GET /campaigns/{id} and its   *)
(*              Redis entry                                                *)
(*   SpecRace   two prediction requests served concurrently, one step per  *)
(*              await                                                      *)
(*   SpecListRace  campaign list reads concurrent with a campaign          *)
(*              creation, one step per await                               *)
(*                                                                         *)
(* In the other specifications of endpoints a request is served from its   *)
(* first line to its return (or raise) in one step: they describe          *)
(* sequences of requests.                                                  *)
(* Every handler records its name and the HTTP status code of its answer   *)
(* in the subsystem's *_resp variable, which is how properties speak about *)
(* "the request was answered with 400".                                    *)
(***************************************************************************)
EXTENDS Integers, Sequences, FiniteSets, TLC

VARIABLES
    email_campaigns,   \* collection email_campaigns: _id -> document | NoDoc
    n_campaigns,       \* number of ObjectIds issued for email_campaigns
    email_scheduled,   \* collection email_scheduled: sequence, index = _id
    email_resp,        \* handler and status code of the last email request
    email_cache,       \* Redis keys email:campaign_details:* -> cached body
    scheduled_posts,   \* collection scheduled_posts: sequence, index = _id
    posts_resp,        \* handler and status code of the last posts request
    recommendations,   \* collection recommendations: _id -> document
    rec_cache,         \* Redis keys ads:recommendations:* -> cached body
    rec_resp,          \* handler, status code and body of the last request
    now,               \* wall clock of SpecPred, in hours
    predictions,       \* collection predictions: set of documents
    pred_cache,        \* Redis keys ads:predictions:* -> entry | NoEntry
    pred_resp,         \* answer of the request just served (none after Tick)
    redis_reachable,   \* whether the Redis server answers
    redis_client,      \* RedisService._client: None or the client object
    redis_store,       \* the Redis server's keys: key -> JSON text | NoEntry
    cache_resp,        \* last RedisService call: its name, key and outcome
    mongo_reachable,   \* whether the MongoDB server answers
    app_phase,         \* "starting", "serving" or "aborted"
    startup_error,     \* message of the exception connect_to_mongo raised
    health_resp,       \* body of the last GET /health answer
    platform_fetch,    \* how each ads platform's query ended, last call
    ads_data,          \* what aggregate_all_platforms returned, last call
    module_outcomes,   \* how each module's aggregation ended, last call
    dashboard_data,    \* what get_dashboard_overview returned, last call
    inbox_messages,    \* collection inbox_messages: sequence, index = _id
    inbox_cache,       \* Redis keys inbox:messages:* and inbox:stats:*
    inbox_resp,        \* handler, status code and body of the last request
    cold_calls,        \* collection cold_calls: _id -> document | NoDoc
    n_calls,           \* number of ObjectIds issued for cold_calls
    calls_cache,       \* Redis keys calls:overview:* and calls:agents_summary:*
    calls_resp,        \* handler, status code and body of the last request
    fn_call,           \* the request or library call just made, with its arguments
    fn_result,         \* what the call returned
    inflight,          \* the requests being served, each at one of its awaits
    growth_cache,      \* Redis entries of the SEO growth report
    list_reads,        \* the GET /campaigns requests being served
    creates,           \* the POST /campaigns requests being served
    list_cache         \* Redis keys email:campaigns:* -> cached body

email_vars == <<email_campaigns, n_campaigns, email_scheduled, email_resp,
                email_cache>>
posts_vars == <<scheduled_posts, posts_resp>>
rec_vars   == <<recommendations, rec_cache, rec_resp>>
pred_vars  == <<now, predictions, pred_cache, pred_resp>>
cache_vars == <<redis_reachable, redis_client, redis_store, cache_resp>>
app_vars == <<mongo_reachable, app_phase, startup_error, health_resp>>
agg_vars == <<platform_fetch, ads_data, module_outcomes, dashboard_data>>
inbox_vars == <<inbox_messages, inbox_cache, inbox_resp>>
calls_vars == <<cold_calls, n_calls, calls_cache, calls_resp>>
lib_vars == <<fn_call, fn_result>>
race_vars == <<inflight, growth_cache>>
list_vars == <<list_reads, creates, list_cache>>
vars == <<email_vars, posts_vars, rec_vars, pred_vars, cache_vars, app_vars,
          agg_vars, inbox_vars, calls_vars, lib_vars, race_vars, list_vars>>

\* what the handlers of one subsystem leave alone
EmailFrame == UNCHANGED <<posts_vars, rec_vars, pred_vars, cache_vars,
                          app_vars, agg_vars, inbox_vars, calls_vars, lib_vars, race_vars, list_vars>>
PostsFrame == UNCHANGED <<email_vars, rec_vars, pred_vars, cache_vars,
                          app_vars, agg_vars, inbox_vars, calls_vars, lib_vars, race_vars, list_vars>>
RecsFrame == UNCHANGED <<email_vars, posts_vars, pred_vars, cache_vars,
                         app_vars, agg_vars, inbox_vars, calls_vars, lib_vars, race_vars, list_vars>>
PredFrame == UNCHANGED <<email_vars, posts_vars, rec_vars, cache_vars,
                         app_vars, agg_vars, inbox_vars, calls_vars, lib_vars, race_vars, list_vars>>
CacheFrame == UNCHANGED <<email_vars, posts_vars, rec_vars, pred_vars,
                          app_vars, agg_vars, inbox_vars, calls_vars, lib_vars, race_vars, list_vars>>
AppFrame == UNCHANGED <<email_vars, posts_vars, rec_vars, pred_vars,
                        agg_vars, inbox_vars, calls_vars, lib_vars, race_vars, list_vars>>
AggFrame == UNCHANGED <<email_vars, posts_vars, rec_vars, pred_vars,
                        cache_vars, app_vars, inbox_vars, calls_vars, lib_vars, race_vars, list_vars>>
InboxFrame == UNCHANGED <<email_vars, posts_vars, rec_vars, pred_vars,
                          cache_vars, app_vars, agg_vars, calls_vars, lib_vars, race_vars, list_vars>>
CallsFrame == UNCHANGED <<email_vars, posts_vars, rec_vars, pred_vars,
                          cache_vars, app_vars, agg_vars, inbox_vars, lib_vars, race_vars, list_vars>>
LibFrame == UNCHANGED <<email_vars, posts_vars, rec_vars, pred_vars, cache_vars, app_vars, agg_vars, inbox_vars, calls_vars, race_vars, list_vars>>
RaceFrame == UNCHANGED <<email_vars, posts_vars, rec_vars, cache_vars, app_vars, agg_vars, inbox_vars, calls_vars, lib_vars, list_vars>>
ListFrame == UNCHANGED <<posts_vars, rec_vars, pred_vars, cache_vars, app_vars, agg_vars, inbox_vars, calls_vars, lib_vars, race_vars>>

(***************************************************************************)
(* Shared values                                                           *)
(***************************************************************************)
Users == {"u1", "u2"}

\* Python's None, as a field value or an omitted optional body parameter
NoneVal == "<None>"
\* a find_one that matched nothing
NoDoc == [missing |-> TRUE]
\* an identifier that bson.ObjectId() refuses (raises InvalidId)
MalformedId == 0

\* `if x:` / `not x` on an optional string
Truthy(x) == x \notin {NoneVal, ""}

\* no request answered yet
NoResp == [op |-> "none", code |-> 0]

\* the handler that answered and its HTTP status code
Resp(op, code) == [op |-> op, code |-> code]

\* a Redis key that holds nothing; an answer without a JSON body of interest
NoEntry == [missing |-> TRUE]

(***************************************************************************)
(* Email marketing: campaigns.py and scheduled.py                          *)
(***************************************************************************)
MaxCampaigns == 1
MaxSchedules == 2

CampaignIds == 1..MaxCampaigns
\* a requested scheduled_at, as its distance from the utcnow() the handler
\* compares it with: before, equal, after
Offsets == {-1, 0, 1}

CampaignStatuses == {"draft", "scheduled", "sent", "archived"}
ScheduleStatuses == {"pending", "completed", "cancelled"}

\* request values for subject / html_content
SubjectInputs == {"", "Hello"}
HtmlInputs == {"", "<p>hi</p>"}

\* scheduled_at request strings: not ISO, ISO without UTC offset, ISO with
\* UTC offset (its comparison with utcnow() raises whatever its value)
ScheduledAtInputs ==
    {[kind |-> "malformed", t |-> 0]}
    \cup [kind : {"naive"}, t : Offsets]
    \cup [kind : {"aware"}, t : {-1}]

\* ids a client may put in the path/body: issued or not, or not an ObjectId
CampaignIdInputs == CampaignIds \cup {MalformedId}
ScheduleIdInputs == (1..MaxSchedules) \cup {MalformedId}

\* f"email:campaign_details:{user_id}:{campaign_id}"
DetailKeys == [user_id : Users, campaign_id : CampaignIds]
DetailKey(user, cid) == [user_id |-> user, campaign_id |-> cid]

\* redis_service.delete_pattern(f"email:campaign_details:{user_id}:{campaign_id}")
DeleteDetails(user, cid) ==
    [k \in DetailKeys |->
        IF k = DetailKey(user, cid) THEN NoEntry ELSE email_cache[k]]

\* db.email_campaigns.find_one({"_id": ObjectId(id), "user_id": user})
FindCampaign(cid, user) ==
    IF cid \in CampaignIds /\ email_campaigns[cid] # NoDoc
       /\ email_campaigns[cid].user_id = user
    THEN email_campaigns[cid] ELSE NoDoc

\* db.email_scheduled.find_one({"_id": ObjectId(id), "user_id": user})
FindSchedule(sid, user) ==
    IF sid \in 1..Len(email_scheduled) /\ email_scheduled[sid].user_id = user
    THEN email_scheduled[sid] ELSE NoDoc

\* db.email_campaigns.update_one({"_id": ObjectId(cid)}, {"$set": {"status": s}})
\* (matches nothing, and writes nothing, when the campaign was deleted)
SetCampaignStatus(cid, s) ==
    IF cid \in CampaignIds /\ email_campaigns[cid] # NoDoc
    THEN [email_campaigns EXCEPT ![cid].status = s]
    ELSE email_campaigns

EmailInit ==
    /\ email_campaigns = [c \in CampaignIds |-> NoDoc]
    /\ n_campaigns = 0
    /\ email_scheduled = <<>>
    /\ email_resp = NoResp
    /\ email_cache = [k \in DetailKeys |-> NoEntry]

\* POST /campaigns
create_campaign(user, subject, html_content) ==
    /\ n_campaigns < MaxCampaigns
    /\ n_campaigns' = n_campaigns + 1
    /\ email_campaigns' = [email_campaigns EXCEPT ![n_campaigns + 1] =
            [user_id |-> user, status |-> "draft",
             subject |-> subject, html_content |-> html_content]]
    /\ email_resp' = Resp("create_campaign", 200)
    /\ UNCHANGED email_scheduled
    /\ UNCHANGED email_cache
    /\ EmailFrame

\* update_campaign without the check of lines 324-328: edits any campaign
update_campaign_any_status(user, cid, subject, html_content) ==
    LET campaign == FindCampaign(cid, user)
        answer(code) == Resp("update_campaign", code)
    IN
    /\ UNCHANGED <<n_campaigns, email_scheduled>>
    /\ IF cid = MalformedId
       THEN /\ email_resp' = answer(500)
            /\ UNCHANGED email_campaigns
       ELSE IF campaign = NoDoc
       THEN /\ email_resp' = answer(404)
            /\ UNCHANGED email_campaigns
       ELSE /\ email_resp' = answer(200)
            /\ email_campaigns' = [email_campaigns EXCEPT
                  ![cid].subject = IF Truthy(subject) THEN subject ELSE @,
                  ![cid].html_content =
                      IF html_content # NoneVal THEN html_content ELSE @]
    /\ email_cache' = IF email_resp'.code = 200
                      THEN DeleteDetails(user, cid) ELSE email_cache
    /\ EmailFrame

\* PATCH /campaigns/{campaign_id}
update_campaign(user, cid, subject, html_content) ==
    LET campaign == FindCampaign(cid, user)
        answer(code) == Resp("update_campaign", code)
    IN
    /\ UNCHANGED <<n_campaigns, email_scheduled>>
    /\ IF cid = MalformedId
       THEN /\ email_resp' = answer(500)
            /\ UNCHANGED email_campaigns
       ELSE IF campaign = NoDoc
       THEN /\ email_resp' = answer(404)
            /\ UNCHANGED email_campaigns
       ELSE IF campaign.status # "draft"
       THEN /\ email_resp' = answer(400)
            /\ UNCHANGED email_campaigns
       ELSE /\ email_resp' = answer(200)
            /\ email_campaigns' = [email_campaigns EXCEPT
                  ![cid].subject = IF Truthy(subject) THEN subject ELSE @,
                  ![cid].html_content =
                      IF html_content # NoneVal THEN html_content ELSE @]
    /\ email_cache' = IF email_resp'.code = 200
                      THEN DeleteDetails(user, cid) ELSE email_cache
    /\ EmailFrame

\* DELETE /campaigns/{campaign_id}
delete_campaign(user, cid) ==
    LET campaign == FindCampaign(cid, user)
        answer(code) == Resp("delete_campaign", code)
    IN
    /\ UNCHANGED <<n_campaigns, email_scheduled>>
    /\ IF cid = MalformedId
       THEN /\ email_resp' = answer(500)
            /\ UNCHANGED email_campaigns
       ELSE IF campaign = NoDoc
       THEN /\ email_resp' = answer(404)
            /\ UNCHANGED email_campaigns
       ELSE IF campaign.status # "draft"
       THEN /\ email_resp' = answer(400)
            /\ UNCHANGED email_campaigns
       ELSE /\ email_resp' = answer(200)
            /\ email_campaigns' = [email_campaigns EXCEPT ![cid] = NoDoc]
    /\ UNCHANGED email_cache
    /\ EmailFrame

\* POST /campaigns/{campaign_id}/send
send_campaign(user, cid) ==
    LET campaign == FindCampaign(cid, user)
        answer(code) == Resp("send_campaign", code)
    IN
    /\ UNCHANGED <<n_campaigns, email_scheduled>>
    /\ IF cid = MalformedId
       THEN /\ email_resp' = answer(500)
            /\ UNCHANGED email_campaigns
       ELSE IF campaign = NoDoc
       THEN /\ email_resp' = answer(404)
            /\ UNCHANGED email_campaigns
       ELSE IF campaign.status \notin {"draft", "scheduled"}
       THEN /\ email_resp' = answer(400)
            /\ UNCHANGED email_campaigns
       ELSE IF ~Truthy(campaign.subject) \/ ~Truthy(campaign.html_content)
       THEN /\ email_resp' = answer(400)
            /\ UNCHANGED email_campaigns
       ELSE /\ email_resp' = answer(200)
            /\ email_campaigns' = SetCampaignStatus(cid, "sent")
    /\ email_cache' = IF email_resp'.code = 200
                      THEN DeleteDetails(user, cid) ELSE email_cache
    /\ EmailFrame

\* PATCH /campaigns/{campaign_id}/archive
\* The update filter is {_id, user_id} only; archived_at = utcnow() differs
\* from any stored value, so modified_count is 1 whenever a document matched.
archive_campaign(user, cid) ==
    LET campaign == FindCampaign(cid, user)
        answer(code) == Resp("archive_campaign", code)
    IN
    /\ UNCHANGED <<n_campaigns, email_scheduled>>
    /\ IF cid = MalformedId
       THEN /\ email_resp' = answer(500)
            /\ UNCHANGED email_campaigns
       ELSE IF campaign = NoDoc
       THEN /\ email_resp' = answer(404)
            /\ UNCHANGED email_campaigns
       ELSE /\ email_resp' = answer(200)
            /\ email_campaigns' = SetCampaignStatus(cid, "archived")
    /\ UNCHANGED email_cache
    /\ EmailFrame

\* datetime.fromisoformat(scheduled_at) followed by
\* `scheduled_datetime <= datetime.utcnow()`:
\*   "ValueError"  the string is not ISO                          -> 400
\*   "TypeError"   the string carries a UTC offset; an aware value cannot be
\*                 compared with the naive utcnow()               -> 500
\*   "past"        parsed, and scheduled_datetime <= utcnow       -> 400
\*   "future"      parsed, and scheduled_datetime > utcnow
CheckScheduledAt(scheduled_at) ==
    IF scheduled_at.kind = "malformed" THEN "ValueError"
    ELSE IF scheduled_at.kind = "aware" THEN "TypeError"
    ELSE IF scheduled_at.t <= 0 THEN "past"
    ELSE "future"

\* POST /scheduled
schedule_campaign(user, cid, scheduled_at) ==
    LET campaign == FindCampaign(cid, user)
        answer(code) == Resp("schedule_campaign", code)
        checked == CheckScheduledAt(scheduled_at)
        reject(code) == /\ email_resp' = answer(code)
                        /\ UNCHANGED <<email_campaigns, email_scheduled>>
    IN
    /\ UNCHANGED n_campaigns
    /\ IF cid = MalformedId THEN reject(500)
       ELSE IF campaign = NoDoc THEN reject(404)
       ELSE IF campaign.status \notin {"draft", "scheduled"} THEN reject(400)
       ELSE IF ~Truthy(campaign.subject) \/ ~Truthy(campaign.html_content)
       THEN reject(400)
       ELSE IF checked = "ValueError" THEN reject(400)
       ELSE IF checked = "TypeError" THEN reject(500)
       ELSE IF checked = "past" THEN reject(400)
       ELSE /\ Len(email_scheduled) < MaxSchedules
            /\ email_scheduled' = Append(email_scheduled,
                  [user_id |-> user, campaign_id |-> cid,
                   schedule_status |-> "pending"])
            /\ email_campaigns' = SetCampaignStatus(cid, "scheduled")
            /\ email_resp' = answer(200)
    /\ UNCHANGED email_cache
    /\ EmailFrame

\* PATCH /scheduled/{schedule_id}
\* Writes scheduled_at / timezone / send_options of the schedule, none of
\* which is a field of this model: only the answer is visible.
update_schedule(user, sid, scheduled_at) ==
    LET schedule == FindSchedule(sid, user)
        answer(code) == Resp("update_schedule", code)
        checked == CheckScheduledAt(scheduled_at)
    IN
    /\ UNCHANGED <<n_campaigns, email_campaigns, email_scheduled>>
    /\ email_resp' =
         IF sid = MalformedId THEN answer(500)
         ELSE IF schedule = NoDoc THEN answer(404)
         ELSE IF schedule.schedule_status # "pending" THEN answer(400)
         ELSE IF checked = "ValueError" THEN answer(400)
         ELSE IF checked = "TypeError" THEN answer(500)
         ELSE IF checked = "past" THEN answer(400)
         ELSE answer(200)
    /\ UNCHANGED email_cache
    /\ EmailFrame

\* DELETE /scheduled/{schedule_id}
cancel_scheduled_campaign(user, sid) ==
    LET schedule == FindSchedule(sid, user)
        answer(code) == Resp("cancel_scheduled_campaign", code)
        reject(code) == /\ email_resp' = answer(code)
                        /\ UNCHANGED <<email_campaigns, email_scheduled>>
    IN
    /\ UNCHANGED n_campaigns
    /\ IF sid = MalformedId THEN reject(500)
       ELSE IF schedule = NoDoc THEN reject(404)
       ELSE IF schedule.schedule_status # "pending" THEN reject(400)
       ELSE /\ email_scheduled' =
                  [email_scheduled EXCEPT ![sid].schedule_status = "cancelled"]
            /\ email_campaigns' = SetCampaignStatus(schedule.campaign_id, "draft")
            /\ email_resp' = answer(200)
    /\ UNCHANGED email_cache
    /\ EmailFrame

\* POST /scheduled/{schedule_id}/send-now
send_scheduled_campaign_now(user, sid) ==
    LET schedule == FindSchedule(sid, user)
        answer(code) == Resp("send_scheduled_campaign_now", code)
        reject(code) == /\ email_resp' = answer(code)
                        /\ UNCHANGED <<email_campaigns, email_scheduled>>
    IN
    /\ UNCHANGED n_campaigns
    /\ IF sid = MalformedId THEN reject(500)
       ELSE IF schedule = NoDoc THEN reject(404)
       ELSE IF schedule.schedule_status # "pending" THEN reject(400)
       ELSE /\ email_scheduled' =
                  [email_scheduled EXCEPT ![sid].schedule_status = "completed"]
            /\ email_campaigns' = SetCampaignStatus(schedule.campaign_id, "sent")
            /\ email_resp' = answer(200)
    /\ UNCHANGED email_cache
    /\ EmailFrame

\* the response get_campaign_details builds from a campaign document
DetailBody(cid, campaign) ==
    [id |-> cid, subject |-> campaign.subject, status |-> campaign.status]

DetailResp(code, body) ==
    [op |-> "get_campaign_details", code |-> code, body |-> body]

\* GET /campaigns/{campaign_id}
get_campaign_details(user, cid) ==
    LET cached == IF cid = MalformedId THEN NoEntry
                  ELSE email_cache[DetailKey(user, cid)]
        campaign == FindCampaign(cid, user)
    IN
    /\ UNCHANGED <<email_campaigns, n_campaigns, email_scheduled>>
    /\ IF cached # NoEntry
       THEN /\ email_resp' = DetailResp(200, cached)
            /\ UNCHANGED email_cache
       ELSE IF cid = MalformedId
       THEN /\ email_resp' = DetailResp(500, NoEntry)
            /\ UNCHANGED email_cache
       ELSE IF campaign = NoDoc
       THEN /\ email_resp' = DetailResp(404, NoEntry)
            /\ UNCHANGED email_cache
       ELSE /\ email_resp' = DetailResp(200, DetailBody(cid, campaign))
            /\ email_cache' = [email_cache EXCEPT ![DetailKey(user, cid)] =
                                  DetailBody(cid, campaign)]
    /\ EmailFrame

\* an email:campaign_details:* key reaches its ttl of 600 seconds
email_cache_expire(key) ==
    /\ email_cache[key] # NoEntry
    /\ email_cache' = [email_cache EXCEPT ![key] = NoEntry]
    /\ UNCHANGED <<email_campaigns, n_campaigns, email_scheduled, email_resp>>
    /\ EmailFrame

EmailNext ==
    \/ \E u \in Users, s \in SubjectInputs, h \in HtmlInputs :
          create_campaign(u, s, h)
    \/ \E u \in Users, c \in CampaignIdInputs,
          s \in SubjectInputs \cup {NoneVal}, h \in HtmlInputs \cup {NoneVal} :
          update_campaign(u, c, s, h)
    \/ \E u \in Users, c \in CampaignIdInputs : delete_campaign(u, c)
    \/ \E u \in Users, c \in CampaignIdInputs : send_campaign(u, c)
    \/ \E u \in Users, c \in CampaignIdInputs : archive_campaign(u, c)
    \/ \E u \in Users, c \in CampaignIdInputs,
          at \in ScheduledAtInputs : schedule_campaign(u, c, at)
    \/ \E u \in Users, s \in ScheduleIdInputs,
          at \in ScheduledAtInputs : update_schedule(u, s, at)
    \/ \E u \in Users, s \in ScheduleIdInputs : cancel_scheduled_campaign(u, s)
    \/ \E u \in Users, s \in ScheduleIdInputs : send_scheduled_campaign_now(u, s)

\* the mutating requests together with the detail reads
EmailReadNext ==
    \/ EmailNext
    \/ \E u \in Users, c \in CampaignIdInputs : get_campaign_details(u, c)
    \/ \E k \in DetailKeys : email_cache_expire(k)

(***************************************************************************)
(* Email marketing: properties                                             *)
(***************************************************************************)
PendingSchedulesOf(cid) ==
    {s \in 1..Len(email_scheduled) :
        /\ email_scheduled[s].campaign_id = cid
        /\ email_scheduled[s].schedule_status = "pending"}

CampaignExists(cid) == email_campaigns[cid] # NoDoc

\* C1: after any sequence of email-marketing requests every campaign has at
\* most one schedule whose schedule_status is "pending".
C1_AtMostOnePendingSchedule ==
    \A c \in CampaignIds : Cardinality(PendingSchedulesOf(c)) <= 1

\* the status changes the claim C2 lists
DocumentedTransitions ==
    {<<"draft", "scheduled">>, <<"scheduled", "sent">>,
     <<"draft", "archived">>, <<"scheduled", "draft">>}

\* campaign c exists before and after the step and its status differs
StatusChanged(c) ==
    /\ CampaignExists(c)
    /\ email_campaigns'[c] # NoDoc
    /\ email_campaigns'[c].status # email_campaigns[c].status

\* C2: every change of a campaign's status is draft->scheduled,
\* scheduled->sent, draft->archived, or scheduled->draft made by a schedule
\* cancellation.
C2_OnlyDocumentedTransitions ==
    [][\A c \in CampaignIds : StatusChanged(c) =>
          /\ <<email_campaigns[c].status, email_campaigns'[c].status>>
                \in DocumentedTransitions
          /\ (email_campaigns'[c].status = "draft"
                => email_resp'.op = "cancel_scheduled_campaign")]_vars

HasContent(campaign) == Truthy(campaign.subject) /\ Truthy(campaign.html_content)

\* C3: no campaign becomes "sent" while its subject or HTML content is
\* empty, and a send or send-now request for such a campaign is answered 400
\* and changes neither the campaigns nor the schedules.
C3_NoSendWithoutContent ==
    [][/\ \A c \in CampaignIds :
            (StatusChanged(c) /\ email_campaigns'[c].status = "sent")
               => HasContent(email_campaigns'[c])
       /\ \A u \in Users, c \in CampaignIds :
            (send_campaign(u, c) /\ FindCampaign(c, u) # NoDoc
               /\ FindCampaign(c, u).status \in {"draft", "scheduled"}
               /\ ~HasContent(FindCampaign(c, u)))
            => /\ email_resp'.code = 400
               /\ UNCHANGED <<email_campaigns, email_scheduled>>
       /\ \A u \in Users, s \in 1..Len(email_scheduled) :
            (send_scheduled_campaign_now(u, s) /\ FindSchedule(s, u) # NoDoc
               /\ FindSchedule(s, u).schedule_status = "pending"
               /\ CampaignExists(FindSchedule(s, u).campaign_id)
               /\ ~HasContent(email_campaigns[FindSchedule(s, u).campaign_id]))
            => /\ email_resp'.code = 400
               /\ UNCHANGED <<email_campaigns, email_scheduled>>]_vars

\* C4: an update or delete request of its owner for a campaign that is not
\* "draft" is answered 400 and leaves the collection unchanged; a step of
\* update or delete changes or removes only campaigns that are "draft".
C4_EditOnlyDrafts ==
    [][/\ \A u \in Users, c \in CampaignIds :
            (FindCampaign(c, u) # NoDoc /\ FindCampaign(c, u).status # "draft")
            => /\ \A sub \in SubjectInputs \cup {NoneVal},
                     h \in HtmlInputs \cup {NoneVal} :
                     update_campaign(u, c, sub, h)
                        => /\ email_resp'.code = 400
                           /\ email_campaigns' = email_campaigns
               /\ delete_campaign(u, c)
                     => /\ email_resp'.code = 400
                        /\ email_campaigns' = email_campaigns
       /\ email_resp'.op \in {"update_campaign", "delete_campaign"}
            => \A c \in CampaignIds :
                  email_campaigns'[c] # email_campaigns[c]
                     => /\ CampaignExists(c)
                        /\ email_campaigns[c].status = "draft"
                        /\ email_resp'.code = 200]_vars

\* an update or delete of a campaign that is not a draft has been refused
C4_Witness ==
    /\ email_resp.op \in {"update_campaign", "delete_campaign"}
    /\ email_resp.code = 400
    /\ \E c \in CampaignIds : CampaignExists(c) /\ email_campaigns[c].status # "draft"

\* the conditions under which C5 lets a schedule be created
ScheduleAllowed(user, cid, scheduled_at) ==
    /\ FindCampaign(cid, user) # NoDoc
    /\ FindCampaign(cid, user).status \in {"draft", "scheduled"}
    /\ HasContent(FindCampaign(cid, user))
    /\ scheduled_at.kind \in {"naive", "aware"}
    /\ scheduled_at.t > 0

\* C5: a schedule-create request inserts a pending schedule and sets the
\* campaign to "scheduled" only when the campaign belongs to the user, is
\* draft or scheduled, has subject and content, and scheduled_at is a valid
\* ISO datetime strictly in the future; in every other case it answers 404
\* or 400, inserts nothing and leaves the campaign unchanged.
C5_ScheduleCreateGuard ==
    [][\A u \in Users, c \in CampaignIdInputs, at \in ScheduledAtInputs :
          schedule_campaign(u, c, at) =>
             IF ScheduleAllowed(u, c, at)
             THEN email_resp'.code = 200 =>
                     /\ Len(email_scheduled') = Len(email_scheduled) + 1
                     /\ email_scheduled'[Len(email_scheduled')].schedule_status
                           = "pending"
                     /\ email_campaigns'[c].status = "scheduled"
             ELSE /\ email_resp'.code \in {400, 404}
                  /\ UNCHANGED <<email_campaigns, email_scheduled>>]_vars

\* C26: once a campaign is "sent" it stays "sent" under every later request,
\* requests on schedules created before it was sent included.
C26_SentStaysSent ==
    [][\A c \in CampaignIds :
          (CampaignExists(c) /\ email_campaigns[c].status = "sent")
             => /\ email_campaigns'[c] # NoDoc
                /\ email_campaigns'[c].status = "sent"]_vars

\* C27: a campaign is "scheduled" exactly when a "pending" schedule
\* references it.
C27_ScheduledIffPendingSchedule ==
    \A c \in CampaignIds :
       (CampaignExists(c) /\ email_campaigns[c].status = "scheduled")
          <=> PendingSchedulesOf(c) # {}

\* C29: after a request that changed a campaign has completed, a detail
\* read of the campaign never returns a cached body showing the state from
\* before the change: a read answered 200 returns the subject and status
\* the campaign has at that moment.
C29_DetailReadShowsCurrentState ==
    [][\A u \in Users, c \in CampaignIds :
          (get_campaign_details(u, c) /\ email_resp'.code = 200)
             => /\ FindCampaign(c, u) # NoDoc
                /\ email_resp'.body = DetailBody(c, FindCampaign(c, u))]_vars

(***************************************************************************)
(* Branding content calendar: scheduled_posts.py                           *)
(***************************************************************************)
MaxPosts == 2

PostStatuses == {"pending", "published", "cancelled", "failed"}
\* content of a new post; content of an update (absent or new)
ContentInputs == {"v1"}
UpdateContentInputs == {NoneVal, "v2"}
PostIdInputs == (1..MaxPosts) \cup {MalformedId}
\* an optional scheduled_at that the request body leaves out
OmittedAt == [kind |-> "omitted", t |-> 0]
UpdateAtInputs == ScheduledAtInputs \cup {OmittedAt}

\* db.scheduled_posts.find_one({"_id": ObjectId(id), "user_id": user})
FindPost(pid, user) ==
    IF pid \in 1..Len(scheduled_posts) /\ scheduled_posts[pid].user_id = user
    THEN scheduled_posts[pid] ELSE NoDoc

PostsInit ==
    /\ scheduled_posts = <<>>
    /\ posts_resp = NoResp

\* POST /scheduled-posts
create_scheduled_post(user, content, scheduled_at) ==
    LET answer(code) == Resp("create_scheduled_post", code)
        checked == CheckScheduledAt(scheduled_at)
    IN
    /\ IF checked = "future"
       THEN /\ Len(scheduled_posts) < MaxPosts
            /\ scheduled_posts' = Append(scheduled_posts,
                  [user_id |-> user, content |-> content,
                   scheduled_at |-> scheduled_at.t, status |-> "pending"])
            /\ posts_resp' = answer(200)
       ELSE /\ posts_resp' = answer(IF checked = "TypeError" THEN 500 ELSE 400)
            /\ UNCHANGED scheduled_posts
    /\ PostsFrame

\* update_scheduled_post without the check of lines 278-282: edits a post
\* whatever its status
update_scheduled_post_any_status(user, pid, content, scheduled_at) ==
    LET post == FindPost(pid, user)
        answer(code) == Resp("update_scheduled_post", code)
        checked == IF scheduled_at = OmittedAt THEN "omitted"
                   ELSE CheckScheduledAt(scheduled_at)
        reject(code) == /\ posts_resp' = answer(code)
                        /\ UNCHANGED scheduled_posts
    IN
    /\ IF pid = MalformedId THEN reject(500)
       ELSE IF post = NoDoc THEN reject(404)
       ELSE IF checked = "ValueError" THEN reject(400)
       ELSE IF checked = "TypeError" THEN reject(500)
       ELSE IF checked = "past" THEN reject(400)
       ELSE /\ scheduled_posts' = [scheduled_posts EXCEPT
                  ![pid].content = IF Truthy(content) THEN content ELSE @,
                  ![pid].scheduled_at =
                      IF checked = "future" THEN scheduled_at.t ELSE @]
            /\ posts_resp' = answer(200)
    /\ PostsFrame

\* PATCH /scheduled-posts/{post_id}
\* scheduled_at = OmittedAt: the body omits it (`if scheduled_at:` is false)
update_scheduled_post(user, pid, content, scheduled_at) ==
    LET post == FindPost(pid, user)
        answer(code) == Resp("update_scheduled_post", code)
        checked == IF scheduled_at = OmittedAt THEN "omitted"
                   ELSE CheckScheduledAt(scheduled_at)
        reject(code) == /\ posts_resp' = answer(code)
                        /\ UNCHANGED scheduled_posts
    IN
    /\ IF pid = MalformedId THEN reject(500)
       ELSE IF post = NoDoc THEN reject(404)
       ELSE IF post.status # "pending" THEN reject(400)
       ELSE IF checked = "ValueError" THEN reject(400)
       ELSE IF checked = "TypeError" THEN reject(500)
       ELSE IF checked = "past" THEN reject(400)
       ELSE /\ scheduled_posts' = [scheduled_posts EXCEPT
                  ![pid].content = IF Truthy(content) THEN content ELSE @,
                  ![pid].scheduled_at =
                      IF checked = "future" THEN scheduled_at.t ELSE @]
            /\ posts_resp' = answer(200)
    /\ PostsFrame

\* DELETE /scheduled-posts/{post_id}
cancel_scheduled_post(user, pid) ==
    LET post == FindPost(pid, user)
        answer(code) == Resp("cancel_scheduled_post", code)
        reject(code) == /\ posts_resp' = answer(code)
                        /\ UNCHANGED scheduled_posts
    IN
    /\ IF pid = MalformedId THEN reject(500)
       ELSE IF post = NoDoc THEN reject(404)
       ELSE IF post.status # "pending" THEN reject(400)
       ELSE /\ scheduled_posts' = [scheduled_posts EXCEPT ![pid].status = "cancelled"]
            /\ posts_resp' = answer(200)
    /\ PostsFrame

\* POST /scheduled-posts/{post_id}/publish-now
publish_post_now(user, pid) ==
    LET post == FindPost(pid, user)
        answer(code) == Resp("publish_post_now", code)
        reject(code) == /\ posts_resp' = answer(code)
                        /\ UNCHANGED scheduled_posts
    IN
    /\ IF pid = MalformedId THEN reject(500)
       ELSE IF post = NoDoc THEN reject(404)
       ELSE IF post.status # "pending" THEN reject(400)
       ELSE /\ scheduled_posts' = [scheduled_posts EXCEPT ![pid].status = "published"]
            /\ posts_resp' = answer(200)
    /\ PostsFrame

PostsNext ==
    \/ \E u \in Users, c \in ContentInputs,
          at \in ScheduledAtInputs : create_scheduled_post(u, c, at)
    \/ \E u \in Users, p \in PostIdInputs, c \in UpdateContentInputs,
          at \in UpdateAtInputs :
          update_scheduled_post(u, p, c, at)
    \/ \E u \in Users, p \in PostIdInputs : cancel_scheduled_post(u, p)
    \/ \E u \in Users, p \in PostIdInputs : publish_post_now(u, p)

\* the request is refused with HTTP 400 and no post changes
PostRequestRefused ==
    /\ posts_resp'.code = 400
    /\ scheduled_posts' = scheduled_posts

\* C6: update, cancel and publish-now of a post of the caller that is not
\* "pending" are answered 400 and leave the collection unchanged (a step
\* that is not such a refusal is none of these requests), and a post that is
\* "published" or "cancelled" keeps its status and content in every later
\* step.
C6_OnlyPendingPostsChange ==
    [][/\ \/ PostRequestRefused
          \/ \A u \in Users, p \in 1..Len(scheduled_posts) :
                (FindPost(p, u) # NoDoc /\ FindPost(p, u).status # "pending")
                => /\ \A c \in UpdateContentInputs, at \in UpdateAtInputs :
                         ~update_scheduled_post(u, p, c, at)
                   /\ ~cancel_scheduled_post(u, p)
                   /\ ~publish_post_now(u, p)
       /\ \A p \in 1..Len(scheduled_posts) :
            scheduled_posts[p].status \in {"published", "cancelled"}
            => /\ scheduled_posts'[p].status = scheduled_posts[p].status
               /\ scheduled_posts'[p].content = scheduled_posts[p].content]_vars

\* an update of a post that is no longer pending has been refused, with a
\* published and a cancelled post in the collection
C6_Witness ==
    /\ posts_resp = Resp("update_scheduled_post", 400)
    /\ \E p, q \in 1..Len(scheduled_posts) :
          /\ scheduled_posts[p].status = "published"
          /\ scheduled_posts[q].status = "cancelled"

(***************************************************************************)
(* Ads data shared by recommendations.py and predictions.py                *)
(***************************************************************************)
PlatformInputs == {NoneVal, "meta_ads"}

\* Collection ad_campaigns (no endpoint writes it): u1 has 14 daily rows, all
\* of platform meta_ads and all inside the last 30 days; u2 has 13 rows, all
\* of platform meta_ads and all between 31 and 90 days old.
AdRowsLast90(user, platform) == IF user = "u1" THEN 14 ELSE 13
AdRowsLast30(user, platform) == IF user = "u1" THEN 14 ELSE 0

\* the handler that answered, its HTTP status code and the body it returned
RespBody(op, code, body) == [op |-> op, code |-> code, body |-> body]
NoRespBody == RespBody("none", 0, NoEntry)

\* obj.<name>(...) on an object of a class that defines `methods`
CallMethod(methods, name) ==
    IF name \in methods THEN "called" ELSE "AttributeError"

(***************************************************************************)
(* Ads recommendations: recommendations.py                                 *)
(***************************************************************************)
MaxRecs == 2

RecIdInputs == (1..MaxRecs) \cup {MalformedId}
RecStatuses == {"pending", "applied", "dismissed"}
\* status / new_status are free query strings: the enumerated values and
\* one other
StatusInputs == RecStatuses \cup {"archived"}

\* f"ads:recommendations:{user_id}:{platform}:{priority}:{status}:{limit}"
\* with platform = priority = None and the default limit
RecKeys == [user_id : Users, status : StatusInputs]

\* db.recommendations.find({"user_id": user, "status": status})
FindRecs(user, status) ==
    {r \in 1..Len(recommendations) :
        recommendations[r].user_id = user /\ recommendations[r].status = status}

\* the methods class RecommendationEngine defines
RecommendationEngineMethods ==
    {"generate_ads_recommendations", "generate_seo_recommendations",
     "generate_email_recommendations", "close"}

\* The collection as found at start-up: documents are written with status
\* "pending" (recommendations.py:108 and :215).
RecsInit ==
    /\ recommendations \in UNION {[1..n -> [user_id : Users, status : {"pending"}]]
                                  : n \in 0..MaxRecs}
    /\ rec_cache = [k \in RecKeys |-> NoEntry]
    /\ rec_resp = NoRespBody

\* GET /recommendations
get_recommendations(user, status) ==
    LET key == [user_id |-> user, status |-> status]
        found == FindRecs(user, status)
        body(ids, st) == [recommendations |-> {[id |-> r, status |-> st] : r \in ids}]
        answer(code, b) == RespBody("get_recommendations", code, b)
        new_id == Len(recommendations) + 1
    IN
    /\ IF rec_cache[key] # NoEntry
       THEN /\ rec_resp' = answer(200, rec_cache[key])
            /\ UNCHANGED <<recommendations, rec_cache>>
       ELSE IF found # {}
       THEN /\ rec_cache' = [rec_cache EXCEPT ![key] = body(found, status)]
            /\ rec_resp' = answer(200, body(found, status))
            /\ UNCHANGED recommendations
       ELSE IF AdRowsLast30(user, NoneVal) = 0
       THEN /\ rec_resp' = answer(200, body({}, status))
            /\ UNCHANGED <<recommendations, rec_cache>>
       ELSE IF CallMethod(RecommendationEngineMethods, "generate_recommendations")
               = "AttributeError"
       THEN /\ rec_resp' = answer(500, NoEntry)
            /\ UNCHANGED <<recommendations, rec_cache>>
       ELSE \* one generated recommendation is stored and returned
            /\ new_id <= MaxRecs
            /\ recommendations' = Append(recommendations,
                  [user_id |-> user, status |-> "pending"])
            /\ rec_cache' = [rec_cache EXCEPT ![key] = body({new_id}, "pending")]
            /\ rec_resp' = answer(200, body({new_id}, "pending"))
    /\ RecsFrame

\* PATCH /recommendations/{recommendation_id}/status
\* updated_at = utcnow() differs from any stored value, so modified_count is
\* 1 whenever the filter {_id, user_id} matched.
update_recommendation_status(rid, user, new_status) ==
    LET answer(code) == RespBody("update_recommendation_status", code, NoEntry)
    IN
    /\ IF rid = MalformedId
       THEN /\ rec_resp' = answer(500)
            /\ UNCHANGED <<recommendations, rec_cache>>
       ELSE IF ~(rid \in 1..Len(recommendations) /\ recommendations[rid].user_id = user)
       THEN /\ rec_resp' = answer(404)
            /\ UNCHANGED <<recommendations, rec_cache>>
       ELSE /\ recommendations' = [recommendations EXCEPT ![rid].status = new_status]
            /\ rec_cache' = [k \in RecKeys |->
                   IF k.user_id = user THEN NoEntry ELSE rec_cache[k]]
            /\ rec_resp' = answer(200)
    /\ RecsFrame

\* a Redis key reaches its time to live (setex ttl=3600)
rec_cache_expire(key) ==
    /\ rec_cache[key] # NoEntry
    /\ rec_cache' = [rec_cache EXCEPT ![key] = NoEntry]
    /\ UNCHANGED <<recommendations, rec_resp>>
    /\ RecsFrame

RecsNext ==
    \/ \E u \in Users, s \in StatusInputs : get_recommendations(u, s)
    \/ \E r \in RecIdInputs, u \in Users, s \in StatusInputs :
          update_recommendation_status(r, u, s)
    \/ \E k \in RecKeys : rec_cache_expire(k)

\* C7: a recommendation's status changes only from "pending" to "applied"
\* or from "pending" to "dismissed"; one that is applied or dismissed keeps
\* its status.
C7_OnlyPendingToFinal ==
    [][\A r \in 1..Len(recommendations) :
          recommendations'[r].status # recommendations[r].status
          => /\ recommendations[r].status = "pending"
             /\ recommendations'[r].status \in {"applied", "dismissed"}]_vars

\* C8: a status update of one of the caller's recommendations whose new
\* status is not an enumerated status is answered 400 and changes neither
\* the documents nor the cache.
C8_InvalidStatusRejected ==
    [][\A r \in 1..Len(recommendations), s \in StatusInputs \ RecStatuses :
          update_recommendation_status(r, recommendations[r].user_id, s)
          => /\ rec_resp'.code = 400
             /\ UNCHANGED <<recommendations, rec_cache>>]_vars

\* C11: a list request that misses the cache, finds no recommendation for
\* its filter and finds campaign rows of the last 30 days is answered 200
\* with newly generated recommendations, each of which has been inserted
\* into the collection with status "pending".
C11_GeneratesWhenNoneMatch ==
    [][\A u \in Users, s \in StatusInputs :
          (/\ get_recommendations(u, s)
           /\ rec_cache[[user_id |-> u, status |-> s]] = NoEntry
           /\ FindRecs(u, s) = {}
           /\ AdRowsLast30(u, NoneVal) > 0)
          => /\ rec_resp'.code = 200
             /\ Len(recommendations') > Len(recommendations)
             /\ rec_resp'.body.recommendations # {}
             /\ \A r \in rec_resp'.body.recommendations :
                   /\ r.id \in (Len(recommendations) + 1)..Len(recommendations')
                   /\ recommendations'[r.id].user_id = u
                   /\ recommendations'[r.id].status = "pending"]_vars

(***************************************************************************)
(* Ads predictions: predictions.py and prediction_engine.py                *)
(***************************************************************************)
\* timedelta(hours=24) of the freshness cutoff
FreshHours == 24
\* ttl=86400 seconds of both redis_service.set calls, in hours
CacheTtlHours == 24
\* `len(historical_data) < 14`
MinHistoryRows == 14

\* the clock starts at StartHour and advances StepHours at a time to MaxNow
StartHour == 18
StepHours == 12
MaxNow == 66

PeriodInputs == {"next_7_days", "next_30_days"}

\* f"ads:predictions:{user_id}:{platform}:{prediction_period}"
PredKeys == [user_id : Users, platform : PlatformInputs,
             prediction_period : PeriodInputs]

\* Prediction documents the collection may hold at start-up, generated at
\* hour 0 or at hour StartHour
SeedShapes ==
    {[id |-> 1, user_id |-> "u1", platform |-> NoneVal,
      prediction_period |-> "next_7_days", predicted_metrics |-> "m1"],
     [id |-> 2, user_id |-> "u1", platform |-> "meta_ads",
      prediction_period |-> "next_7_days", predicted_metrics |-> "m2"],
     [id |-> 3, user_id |-> "u2", platform |-> NoneVal,
      prediction_period |-> "next_7_days", predicted_metrics |-> "m3"],
     [id |-> 4, user_id |-> "u1", platform |-> NoneVal,
      prediction_period |-> "next_30_days", predicted_metrics |-> "m4"]}
SeedTimes == {0, StartHour}

PredDoc(shape, generated_at) ==
    [id |-> shape.id, user_id |-> shape.user_id, type |-> "ad_performance",
     platform |-> shape.platform, prediction_period |-> shape.prediction_period,
     predicted_metrics |-> shape.predicted_metrics, generated_at |-> generated_at]

\* the methods class PredictionEngine defines
PredictionEngineMethods ==
    {"predict_ads_performance", "predict_seo_growth", "forecast_seo_traffic",
     "_forecast_metric", "_calculate_confidence", "_generate_seo_recommendations"}

\* prediction_filter without generated_at: user, type, period, and platform
\* only when the request names one (`if platform:`)
MatchesFilter(d, user, platform, period) ==
    /\ d.user_id = user
    /\ d.type = "ad_performance"
    /\ d.prediction_period = period
    /\ (Truthy(platform) => d.platform = platform)

\* the filter without its generated_at condition: any matching document
FreshPredictions_no_cutoff(user, platform, period) ==
    {d \in predictions : MatchesFilter(d, user, platform, period)}

\* db.predictions.find(prediction_filter), with
\* generated_at >= utcnow() - timedelta(hours=24)
FreshPredictions(user, platform, period) ==
    {d \in predictions :
        /\ MatchesFilter(d, user, platform, period)
        /\ d.generated_at >= now - FreshHours}

\* redis get: a key set with setex is gone once its ttl has run out
CacheGet(key) ==
    IF pred_cache[key] # NoEntry /\ pred_cache[key].expires_at > now
    THEN pred_cache[key].body ELSE NoEntry

PredInit ==
    /\ now = StartHour
    /\ \E chosen \in SUBSET SeedShapes :
         \E at \in [chosen -> SeedTimes] :
            predictions = {PredDoc(sh, at[sh]) : sh \in chosen}
    /\ pred_cache = [k \in PredKeys |-> NoEntry]
    /\ pred_resp = NoRespBody

\* GET /predictions (ads)
get_predictions(user, platform, prediction_period, force_refresh) ==
    LET key == [user_id |-> user, platform |-> platform,
                prediction_period |-> prediction_period]
        answer(code, b) == RespBody("get_predictions", code, b)
        cached == CacheGet(key)
        fresh == FreshPredictions(user, platform, prediction_period)
        from_doc(d) == [predictions |-> d.predicted_metrics,
                        generated_at |-> d.generated_at, source |-> "database"]
        computed == [predictions |-> "computed", generated_at |-> now,
                     source |-> "freshly_generated"]
        new_doc == [id |-> Cardinality(predictions) + 5, user_id |-> user,
                    type |-> "ad_performance", platform |-> platform,
                    prediction_period |-> prediction_period,
                    predicted_metrics |-> "computed", generated_at |-> now]
    IN
    /\ UNCHANGED now
    /\ IF ~force_refresh /\ cached # NoEntry
       THEN /\ pred_resp' = answer(200, cached)
            /\ UNCHANGED <<predictions, pred_cache>>
       ELSE IF fresh # {} /\ ~force_refresh
       THEN \E d \in fresh :     \* find_one: whichever document comes first
            /\ pred_cache' = [pred_cache EXCEPT ![key] =
                  [body |-> from_doc(d), expires_at |-> now + CacheTtlHours]]
            /\ pred_resp' = answer(200, from_doc(d))
            /\ UNCHANGED predictions
       ELSE IF AdRowsLast90(user, platform) < MinHistoryRows
       THEN /\ pred_resp' = answer(400, NoEntry)
            /\ UNCHANGED <<predictions, pred_cache>>
       ELSE IF CallMethod(PredictionEngineMethods, "predict_ad_performance")
               = "AttributeError"
       THEN /\ pred_resp' = answer(500, NoEntry)
            /\ UNCHANGED <<predictions, pred_cache>>
       ELSE /\ predictions' = predictions \cup {new_doc}
            /\ pred_cache' = [pred_cache EXCEPT ![key] =
                  [body |-> computed, expires_at |-> now + CacheTtlHours]]
            /\ pred_resp' = answer(200, computed)
    /\ PredFrame

\* time passes; Redis drops the keys whose ttl has run out, and the last
\* answer has been delivered
Tick ==
    /\ now + StepHours <= MaxNow
    /\ now' = now + StepHours
    /\ pred_cache' = [k \in PredKeys |->
          IF pred_cache[k] # NoEntry /\ pred_cache[k].expires_at <= now + StepHours
          THEN NoEntry ELSE pred_cache[k]]
    /\ pred_resp' = NoRespBody
    /\ UNCHANGED predictions
    /\ PredFrame

PredNext ==
    \/ \E u \in Users, p \in PlatformInputs, per \in PeriodInputs,
          f \in BOOLEAN : get_predictions(u, p, per, f)
    \/ Tick

\* the request's parameters name a document exactly, and it is less than
\* 24 hours old
FreshDocumentExists(user, platform, period) ==
    \E d \in predictions :
        /\ MatchesFilter(d, user, platform, period)
        /\ d.platform = platform
        /\ now - d.generated_at < FreshHours

\* the answer is 200 from stored data; nothing was computed or inserted
ServedFromStore ==
    /\ pred_resp'.code = 200
    /\ pred_resp'.body # NoEntry
    /\ pred_resp'.body.source = "database"
    /\ predictions' = predictions

C10_StaleRegenerates ==
    [][\A u \in Users, pl \in PlatformInputs, per \in PeriodInputs,
          fr \in BOOLEAN :
          get_predictions(u, pl, per, fr)
          => /\ (FreshPredictions(u, pl, per) = {}
                   /\ AdRowsLast90(u, pl) >= MinHistoryRows)
                => /\ pred_resp'.code = 200
                   /\ pred_resp'.body # NoEntry
                   /\ pred_resp'.body.source = "freshly_generated"
                   /\ \E d \in predictions' \ predictions :
                         /\ MatchesFilter(d, u, pl, per)
                         /\ d.generated_at = now
             /\ pred_resp'.code = 200
                => now - pred_resp'.body.generated_at <= FreshHours]_vars

(***************************************************************************)
(* Specifications                                                          *)
(***************************************************************************)
\* a subsystem no request of the specification touches stays as constructed
(***************************************************************************)
(* Cache Service: redis_service.py                                         *)
(***************************************************************************)
\* the key GET /health probes, and one key of an endpoint
HealthKey == "health_check_test"
CacheKeys == {"k1", HealthKey}

\* a value json.dumps refuses (a datetime, an ObjectId): raises TypeError
Unserializable == "<datetime>"
CacheValues == {"a", "b", Unserializable}

\* how a Python call ends: it returns a value or raises an exception
Returns(v) == [raised |-> FALSE, value |-> v]
Raises(e) == [raised |-> TRUE, value |-> e]

\* try: <body>  except Exception: return <fallback>
\* with the exception escaping instead
TryExcept_reraise(outcome, fallback) == outcome

\* try: <body>  except Exception: return <fallback>
TryExcept(outcome, fallback) ==
    IF outcome.raised THEN Returns(fallback) ELSE outcome

\* json.dumps(value) and json.loads(text)
JsonDumps(value) ==
    IF value = Unserializable THEN Raises("TypeError")
    ELSE Returns([json |-> value])
JsonLoads(text) == Returns(text.json)

\* a command sent through the client object: answered by the server, or
\* redis.ConnectionError when the server does not answer
ClientCall(reachable, answer) ==
    IF reachable THEN Returns(answer) ELSE Raises("ConnectionError")

\* RedisService.connect(): creates the client and pings only when _client
\* is None; any failure leaves _client = None and is swallowed
RedisService_connect_client(client, reachable) ==
    IF client # NoneVal THEN client
    ELSE IF reachable THEN "client" ELSE NoneVal

CacheResp(op, key, outcome) ==
    [op |-> op, key |-> key, raised |-> outcome.raised, value |-> outcome.value]

CacheInit ==
    /\ redis_reachable \in BOOLEAN
    /\ redis_client = NoneVal
    /\ redis_store = [k \in CacheKeys |-> NoEntry]
    /\ cache_resp = CacheResp("none", NoneVal, Returns(NoneVal))

\* await redis_service.connect()
RedisService_connect ==
    /\ redis_client' = RedisService_connect_client(redis_client, redis_reachable)
    /\ cache_resp' = CacheResp("connect", NoneVal, Returns(NoneVal))
    /\ UNCHANGED <<redis_reachable, redis_store>>
    /\ CacheFrame

\* await redis_service.get(key)
RedisService_get(key) ==
    LET client == RedisService_connect_client(redis_client, redis_reachable)
        value == ClientCall(redis_reachable, redis_store[key])
        body == IF client = NoneVal THEN Returns(NoneVal)
                ELSE IF value.raised THEN value
                ELSE IF value.value # NoEntry THEN JsonLoads(value.value)
                ELSE Returns(NoneVal)
    IN
    /\ redis_client' = client
    /\ cache_resp' = CacheResp("get", key, TryExcept(body, NoneVal))
    /\ UNCHANGED <<redis_reachable, redis_store>>
    /\ CacheFrame

\* await redis_service.set(key, value, ttl)
RedisService_set(key, value) ==
    LET client == RedisService_connect_client(redis_client, redis_reachable)
        serialized_value == JsonDumps(value)
        body == IF client = NoneVal THEN Returns(FALSE)
                ELSE IF serialized_value.raised THEN serialized_value
                ELSE ClientCall(redis_reachable, TRUE)
        stored == client # NoneVal /\ ~body.raised
    IN
    /\ redis_client' = client
    /\ redis_store' = IF stored
                      THEN [redis_store EXCEPT ![key] = serialized_value.value]
                      ELSE redis_store
    /\ cache_resp' = CacheResp("set", key, TryExcept(body, FALSE))
    /\ UNCHANGED redis_reachable
    /\ CacheFrame

\* await redis_service.delete(key)
RedisService_delete(key) ==
    LET client == RedisService_connect_client(redis_client, redis_reachable)
        body == IF client = NoneVal THEN Returns(FALSE)
                ELSE ClientCall(redis_reachable, TRUE)
        deleted == client # NoneVal /\ ~body.raised
    IN
    /\ redis_client' = client
    /\ redis_store' = IF deleted
                      THEN [redis_store EXCEPT ![key] = NoEntry]
                      ELSE redis_store
    /\ cache_resp' = CacheResp("delete", key, TryExcept(body, FALSE))
    /\ UNCHANGED redis_reachable
    /\ CacheFrame

\* the outcome of redis_service.exists(key)
RedisService_exists_outcome(key) ==
    LET client == RedisService_connect_client(redis_client, redis_reachable)
        body == IF client = NoneVal THEN Returns(FALSE)
                ELSE ClientCall(redis_reachable, redis_store[key] # NoEntry)
    IN TryExcept(body, FALSE)

\* await redis_service.exists(key)
RedisService_exists(key) ==
    /\ redis_client' = RedisService_connect_client(redis_client, redis_reachable)
    /\ cache_resp' = CacheResp("exists", key, RedisService_exists_outcome(key))
    /\ UNCHANGED <<redis_reachable, redis_store>>
    /\ CacheFrame

\* the server drops a key whose time to live (setex) has run out
redis_key_expires(key) ==
    /\ redis_store[key] # NoEntry
    /\ redis_store' = [redis_store EXCEPT ![key] = NoEntry]
    /\ UNCHANGED <<redis_reachable, redis_client, cache_resp>>
    /\ CacheFrame

\* the server, or the network in front of it, fails
redis_goes_down ==
    /\ redis_reachable
    /\ redis_reachable' = FALSE
    /\ UNCHANGED <<redis_client, redis_store, cache_resp>>
    /\ CacheFrame

\* the server answers again
redis_comes_back ==
    /\ ~redis_reachable
    /\ redis_reachable' = TRUE
    /\ UNCHANGED <<redis_client, redis_store, cache_resp>>
    /\ CacheFrame

CacheNext ==
    \/ RedisService_connect
    \/ \E k \in CacheKeys : RedisService_get(k)
    \/ \E k \in CacheKeys, v \in CacheValues : RedisService_set(k, v)
    \/ \E k \in CacheKeys : RedisService_delete(k)
    \/ \E k \in CacheKeys : RedisService_exists(k)
    \/ \E k \in CacheKeys : redis_key_expires(k)
    \/ redis_goes_down
    \/ redis_comes_back

\* C12: no call of the Cache Service raises; while the Redis server does
\* not answer, get returns None (a miss) whatever the server holds, and
\* set and delete return False and leave the server's keys as they are.
C12_CacheNeverRaises ==
    [][/\ cache_resp'.raised = FALSE
       /\ ~redis_reachable
          => /\ \A k \in CacheKeys :
                   RedisService_get(k) => cache_resp'.value = NoneVal
             /\ \A k \in CacheKeys, v \in CacheValues :
                   RedisService_set(k, v)
                   => cache_resp'.value = FALSE /\ redis_store' = redis_store
             /\ \A k \in CacheKeys :
                   RedisService_delete(k)
                   => cache_resp'.value = FALSE /\ redis_store' = redis_store]_vars

\* a get of a key the server holds, made through an established client
\* while the server does not answer, came back as a miss
C12_Witness ==
    /\ ~redis_reachable
    /\ redis_client # NoneVal
    /\ cache_resp.op = "get"
    /\ redis_store[cache_resp.key] # NoEntry
    /\ cache_resp.raised = FALSE
    /\ cache_resp.value = NoneVal

(***************************************************************************)
(* Application start-up and health: main.py and database.py                *)
(***************************************************************************)
\* Words an exception message is made of, and for each the substrings
\* among "mongo" and "database" that its lower-cased form contains.
Words == {"localhost:27017:", "mongodb:27017:", "Connection", "refused",
          "Authentication", "failed", "Database", "unavailable"}
Lower(word) ==
    CASE word = "Connection" -> "connection"
      [] word = "Authentication" -> "authentication"
      [] word = "Database" -> "database"
      [] OTHER -> word
Contains(word, sub) ==
    \/ word = "mongodb:27017:" /\ sub = "mongo"
    \/ word = "database" /\ sub = "database"

\* str(e) of the exception a failed connection attempt raises: pymongo puts
\* the server address and the socket error in it
FailureMessages ==
    {<<"localhost:27017:", "Connection", "refused">>,
     <<"mongodb:27017:", "Connection", "refused">>,
     <<"Authentication", "failed">>,
     <<"Database", "unavailable">>}

\* sub in str(e).lower()
InLowered(sub, message) ==
    \E i \in 1..Len(message) : Contains(Lower(message[i]), sub)

\* lifespan's except clause: re-raise or carry on
LifespanReraises(message) ==
    InLowered("mongo", message) \/ InLowered("database", message)

\* connect_to_mongo(): the ping decides; a failure of create_indexes is
\* swallowed; every exception is logged and re-raised
connect_to_mongo_outcome(reachable, message) ==
    IF reachable THEN Returns(NoneVal) ELSE Raises(message)

\* check_database_health()
check_database_health(reachable) ==
    TryExcept(ClientCall(reachable, TRUE), FALSE).value

\* status = "healthy" if db_healthy else "unhealthy"
\* with the cache taken into account
HealthStatus_needs_cache(db_healthy, redis_healthy) ==
    IF db_healthy /\ redis_healthy THEN "healthy" ELSE "unhealthy"

\* status = "healthy" if db_healthy else "unhealthy"
HealthStatus(db_healthy, redis_healthy) ==
    IF db_healthy THEN "healthy" ELSE "unhealthy"

NoHealth == [code |-> 0, status |-> NoneVal, database |-> NoneVal, cache |-> NoneVal]

AppInit ==
    /\ mongo_reachable \in BOOLEAN
    /\ app_phase = "starting"
    /\ startup_error = NoneVal
    /\ health_resp = NoHealth

\* lifespan(), up to its yield
lifespan_startup(message) ==
    LET connected == connect_to_mongo_outcome(mongo_reachable, message)
    IN
    /\ app_phase = "starting"
    /\ IF ~connected.raised
       THEN /\ redis_client' = RedisService_connect_client(redis_client, redis_reachable)
            /\ cache_resp' = CacheResp("connect", NoneVal, Returns(NoneVal))
            /\ app_phase' = "serving"
            /\ startup_error' = NoneVal
       ELSE /\ startup_error' = connected.value
            /\ app_phase' = IF LifespanReraises(connected.value)
                            THEN "aborted" ELSE "serving"
            /\ UNCHANGED <<redis_client, cache_resp>>
    /\ UNCHANGED <<mongo_reachable, health_resp, redis_reachable, redis_store>>
    /\ AppFrame

\* GET /health
health_check ==
    LET db_healthy == check_database_health(mongo_reachable)
        redis_healthy == RedisService_exists_outcome(HealthKey)
    IN
    /\ app_phase = "serving"
    /\ redis_client' = RedisService_connect_client(redis_client, redis_reachable)
    /\ cache_resp' = CacheResp("exists", HealthKey, redis_healthy)
    /\ health_resp' =
          IF redis_healthy.raised
          THEN [code |-> 500, status |-> NoneVal, database |-> NoneVal,
                cache |-> NoneVal]
          ELSE [code |-> 200,
                status |-> HealthStatus(db_healthy, redis_healthy.value),
                database |-> IF db_healthy THEN "healthy" ELSE "unhealthy",
                cache |-> IF redis_healthy.value THEN "healthy" ELSE "unavailable"]
    /\ UNCHANGED <<mongo_reachable, app_phase, startup_error,
                   redis_reachable, redis_store>>
    /\ AppFrame

\* the MongoDB server, or the network in front of it, fails
mongo_goes_down ==
    /\ mongo_reachable
    /\ mongo_reachable' = FALSE
    /\ UNCHANGED <<app_phase, startup_error, health_resp, cache_vars>>
    /\ AppFrame

\* the MongoDB server answers again
mongo_comes_back ==
    /\ ~mongo_reachable
    /\ mongo_reachable' = TRUE
    /\ UNCHANGED <<app_phase, startup_error, health_resp, cache_vars>>
    /\ AppFrame

\* an endpoint of the serving application stores a response in the cache
endpoint_caches(key, value) ==
    /\ app_phase = "serving"
    /\ RedisService_set(key, value)

AppNext ==
    \/ \E m \in FailureMessages : lifespan_startup(m)
    \/ health_check
    \/ mongo_goes_down
    \/ mongo_comes_back
    \/ redis_goes_down
    \/ redis_comes_back
    \/ \E k \in CacheKeys, v \in CacheValues : endpoint_caches(k, v)
    \/ \E k \in CacheKeys : redis_key_expires(k)

\* C13: when the connection attempt of the start-up fails, whatever the
\* message of the failure, the start-up aborts and the application never
\* serves requests.
C13_ConnectionFailureAborts ==
    startup_error # NoneVal => app_phase = "aborted"

\* C14: GET /health answers 200 with status "healthy" exactly when the
\* database ping succeeds, whatever the state of the cache; while the Redis
\* server does not answer the cache is reported "unavailable".
C14_HealthFollowsDatabase ==
    [][health_check
       => /\ health_resp'.code = 200
          /\ (health_resp'.status = "healthy") <=> mongo_reachable
          /\ health_resp'.database = health_resp'.status
          /\ ~redis_reachable => health_resp'.cache = "unavailable"]_vars

\* the health endpoint answered "healthy" while the Redis server, reached
\* earlier through an established client, does not answer
C14_Witness ==
    /\ health_resp.code = 200
    /\ health_resp.status = "healthy"
    /\ health_resp.cache = "unavailable"
    /\ cache_resp.op = "exists"
    /\ redis_client # NoneVal
    /\ ~redis_reachable
    /\ mongo_reachable

(***************************************************************************)
(* Aggregators: ads_aggregator.py and dashboard_aggregator.py              *)
(***************************************************************************)
SUPPORTED_PLATFORMS ==
    <<"meta_ads", "google_ads", "twitter_ads", "tiktok_ads", "linkedin_ads">>
Platforms == {SUPPORTED_PLATFORMS[i] : i \in 1..Len(SUPPORTED_PLATFORMS)}

\* How the $group query on collection ads_<platform> ends: it raises, it
\* returns no row (nothing matched), or it returns the one summed row.
FetchKinds == {"fails", "no_rows", "rows"}

\* The summed row of a platform that has data; the amounts differ by
\* platform so that a total tells which platforms are in it.
PlatformRow(platform) ==
    CASE platform = "meta_ads"     -> [spend |-> 1,  clicks |-> 10]
      [] platform = "google_ads"   -> [spend |-> 2,  clicks |-> 20]
      [] platform = "twitter_ads"  -> [spend |-> 4,  clicks |-> 40]
      [] platform = "tiktok_ads"   -> [spend |-> 8,  clicks |-> 80]
      [] platform = "linkedin_ads" -> [spend |-> 16, clicks |-> 160]

\* AdsAggregator._get_platform_data: the row, or None (written NoDoc) when
\* nothing matched or when the query raised
AdsAggregator_get_platform_data(platform, kind) ==
    LET body == CASE kind = "fails"   -> Raises("OperationFailure")
                  [] kind = "no_rows" -> Returns(NoDoc)
                  [] kind = "rows"    -> Returns(PlatformRow(platform))
    IN TryExcept(body, NoDoc)

EmptyAdsData == [total_spend |-> 0, total_clicks |-> 0, platform_breakdown |-> <<>>]

\* one turn of the loop over SUPPORTED_PLATFORMS
\* with an entry appended for every platform, fetched or not
PlatformStep_counts_all(acc, platform, platform_data) ==
    LET row == IF platform_data.raised \/ platform_data.value = NoDoc
               THEN [spend |-> 0, clicks |-> 0] ELSE platform_data.value
    IN [total_spend |-> acc.total_spend + row.spend,
        total_clicks |-> acc.total_clicks + row.clicks,
        platform_breakdown |-> Append(acc.platform_breakdown,
            [platform |-> platform, spend |-> row.spend, clicks |-> row.clicks])]

\* one turn of the loop over SUPPORTED_PLATFORMS
PlatformStep(acc, platform, platform_data) ==
    IF platform_data.raised THEN acc                 \* except ...: continue
    ELSE IF platform_data.value = NoDoc THEN acc     \* if platform_data:
    ELSE [total_spend |-> acc.total_spend + platform_data.value.spend,
          total_clicks |-> acc.total_clicks + platform_data.value.clicks,
          platform_breakdown |-> Append(acc.platform_breakdown,
              [platform |-> platform,
               spend |-> platform_data.value.spend,
               clicks |-> platform_data.value.clicks])]

\* the loop over the first n platforms
RECURSIVE AdsLoop(_, _)
AdsLoop(fetch, n) ==
    IF n = 0 THEN EmptyAdsData
    ELSE PlatformStep(AdsLoop(fetch, n - 1), SUPPORTED_PLATFORMS[n],
             AdsAggregator_get_platform_data(SUPPORTED_PLATFORMS[n],
                                             fetch[SUPPORTED_PLATFORMS[n]]))

\* The five module slots of the dashboard
Slots == {"ads", "seo", "inbox", "email_marketing", "branding"}

\* How the aggregation of a module ends: it raises, it returns the result
\* of a user without data, or it returns the result of a user with data.
ModuleKinds == {"fails", "empty", "data"}

\* What the try block of a module works on: the exception with its
\* message, or the value returned (for seo: the list of rows found).
ModuleOutcome(slot, kind) ==
    IF kind = "fails"
    THEN CASE slot = "ads" -> Raises("ads down")
           [] slot = "seo" -> Raises("seo down")
           [] slot = "inbox" -> Raises("inbox down")
           [] slot = "email_marketing" -> Raises("email down")
           [] slot = "branding" -> Raises("branding down")
    ELSE IF kind = "empty"
    THEN CASE slot = "ads" -> Returns(EmptyAdsData)
           [] slot = "seo" -> Returns(<<>>)
           [] slot = "inbox" ->
                Returns([total_messages |-> 0, total_unread |-> 0])
           [] slot = "email_marketing" ->
                Returns([total_campaigns |-> 0, total_sent |-> 0])
           [] slot = "branding" ->
                Returns([total_followers |-> 0, total_engagement |-> 0])
    ELSE CASE slot = "ads" ->
                Returns([total_spend |-> 3, total_clicks |-> 30,
                         platform_breakdown |-> <<"meta_ads", "google_ads">>])
           [] slot = "seo" -> Returns(<<[organic_traffic |-> 5]>>)
           [] slot = "inbox" ->
                Returns([total_messages |-> 9, total_unread |-> 4])
           [] slot = "email_marketing" ->
                Returns([total_campaigns |-> 2, total_sent |-> 50])
           [] slot = "branding" ->
                Returns([total_followers |-> 7, total_engagement |-> 3])

\* SEOAggregator.aggregate_seo_data on a non-empty list of rows
aggregate_seo_data(seo_data) ==
    [total_organic_traffic |-> seo_data[1].organic_traffic]

\* the dictionary the try block of a module stores in its slot
Projection(slot, data) ==
    CASE slot = "ads" ->
           [total_spend |-> data.total_spend,
            total_clicks |-> data.total_clicks,
            platforms |-> Len(data.platform_breakdown)]
      [] slot = "seo" ->
           IF Len(data) > 0
           THEN [total_organic_traffic |->
                    aggregate_seo_data(data).total_organic_traffic]
           ELSE [total_organic_traffic |-> 0]
      [] slot = "inbox" ->
           [total_messages |-> data.total_messages,
            unread_count |-> data.total_unread]
      [] slot = "email_marketing" ->
           [total_campaigns |-> data.total_campaigns,
            total_sent |-> data.total_sent]
      [] slot = "branding" ->
           [total_followers |-> data.total_followers,
            total_engagement |-> data.total_engagement]

\* try: ... modules[slot] = {...}  except Exception as e: ... {"error": str(e)}
\* with the failure hidden behind an empty projection
ModuleSlot_hides_error(slot, outcome) ==
    IF outcome.raised THEN [total |-> 0] ELSE Projection(slot, outcome.value)

\* try: ... modules[slot] = {...}  except Exception as e: ... {"error": str(e)}
ModuleSlot(slot, outcome) ==
    IF outcome.raised THEN [error |-> outcome.value]
    ELSE Projection(slot, outcome.value)

NoAdsData == [none |-> TRUE]
NoDashboard == [none |-> TRUE]

AggInit ==
    /\ platform_fetch = [p \in Platforms |-> "no_rows"]
    /\ ads_data = NoAdsData
    /\ module_outcomes = [m \in Slots |-> "empty"]
    /\ dashboard_data = NoDashboard

\* The aggregator variables describe the call made last, so a call clears
\* what the other aggregator's call left.

\* AdsAggregator.aggregate_all_platforms
aggregate_all_platforms(fetch) ==
    /\ platform_fetch' = fetch
    /\ ads_data' = AdsLoop(fetch, Len(SUPPORTED_PLATFORMS))
    /\ module_outcomes' = [m \in Slots |-> "empty"]
    /\ dashboard_data' = NoDashboard
    /\ AggFrame

\* DashboardAggregator.get_dashboard_overview
get_dashboard_overview(kinds) ==
    LET modules == [m \in Slots |-> ModuleSlot(m, ModuleOutcome(m, kinds[m]))]
    IN
    /\ module_outcomes' = kinds
    /\ dashboard_data' =
          [modules |-> modules,
           summary |-> [total_modules |->
               Cardinality({m \in Slots : "error" \notin DOMAIN modules[m]})]]
    /\ platform_fetch' = [p \in Platforms |-> "no_rows"]
    /\ ads_data' = NoAdsData
    /\ AggFrame

AggNext ==
    \/ \E fetch \in [Platforms -> FetchKinds] : aggregate_all_platforms(fetch)
    \/ \E kinds \in [Slots -> ModuleKinds] : get_dashboard_overview(kinds)

\* C15: whichever of the five module aggregations raise, the overview
\* holds all five slots; the slot of a module that raised is exactly
\* {"error": <message>}, every other slot is the module's projection and
\* has no "error" field, and the summary counts the modules that did not fail.
C15_FailedSlotsIsolated ==
    dashboard_data # NoDashboard
    => /\ DOMAIN dashboard_data.modules = Slots
       /\ \A m \in Slots :
             LET slot == dashboard_data.modules[m]
                 outcome == ModuleOutcome(m, module_outcomes[m])
             IN IF module_outcomes[m] = "fails"
                THEN slot = [error |-> outcome.value]
                ELSE /\ "error" \notin DOMAIN slot
                     /\ slot = Projection(m, outcome.value)
       /\ dashboard_data.summary.total_modules =
             Cardinality({m \in Slots : module_outcomes[m] # "fails"})

\* an overview in which two modules failed and three did not
C15_Witness ==
    /\ dashboard_data # NoDashboard
    /\ module_outcomes["seo"] = "fails"
    /\ module_outcomes["inbox"] = "fails"
    /\ module_outcomes["ads"] = "data"
    /\ module_outcomes["email_marketing"] = "data"
    /\ module_outcomes["branding"] = "empty"
    /\ dashboard_data.modules["seo"] = [error |-> "seo down"]
    /\ dashboard_data.modules["ads"].total_spend = 3
    /\ dashboard_data.summary.total_modules = 3

\* the platforms whose query returned a row in the last call
PlatformsWithRows == {p \in Platforms : platform_fetch[p] = "rows"}

RECURSIVE SumOver(_, _)
SumOver(S, field) ==
    IF S = {} THEN 0
    ELSE LET p == CHOOSE q \in S : TRUE
         IN PlatformRow(p)[field] + SumOver(S \ {p}, field)

\* C16: whichever platform queries fail, aggregate_all_platforms returns a
\* result; its totals are the sums over the platforms whose query returned a
\* row, and its breakdown has one entry for each of these platforms, with
\* that platform's amounts, and no other entry.
C16_FailedPlatformsSkipped ==
    ads_data # NoAdsData
    => /\ ads_data.total_spend = SumOver(PlatformsWithRows, "spend")
       /\ ads_data.total_clicks = SumOver(PlatformsWithRows, "clicks")
       /\ Len(ads_data.platform_breakdown) = Cardinality(PlatformsWithRows)
       /\ {e.platform : e \in {ads_data.platform_breakdown[i] :
                                 i \in 1..Len(ads_data.platform_breakdown)}}
          = PlatformsWithRows
       /\ \A i \in 1..Len(ads_data.platform_breakdown) :
             LET e == ads_data.platform_breakdown[i]
             IN e.spend = PlatformRow(e.platform).spend
                /\ e.clicks = PlatformRow(e.platform).clicks

\* a result computed while two platforms failed, one had no data and two
\* returned a row
C16_Witness ==
    /\ ads_data # NoAdsData
    /\ platform_fetch["meta_ads"] = "fails"
    /\ platform_fetch["google_ads"] = "rows"
    /\ platform_fetch["twitter_ads"] = "rows"
    /\ platform_fetch["tiktok_ads"] = "no_rows"
    /\ platform_fetch["linkedin_ads"] = "fails"
    /\ ads_data.total_spend = 6
    /\ Len(ads_data.platform_breakdown) = 2

(***************************************************************************)
(* Inbox: inbox/messages.py                                                *)
(***************************************************************************)
MaxMessages == 1

\* user_id is a free query string; one of the identifiers holds a colon
InboxUsers == {"u1", "u1:x"}
\* date_range is a free query string; an unrecognised value selects the
\* default range
DateRanges == {"today", "x:today"}

\* The pieces a string falls into at its colons.
Segments(str) ==
    CASE str = "u1:x"    -> <<"u1", "x">>
      [] str = "x:today" -> <<"x", "today">>
      [] OTHER           -> <<str>>

\* A Redis key is a string; it is written here as the sequence of the pieces
\* between its colons, so that two keys are equal exactly when the strings
\* the f-string produces are equal.
\* f"inbox:stats:{user_id}:{date_range}"
StatsKey(user, date_range) ==
    <<"inbox", "stats">> \o Segments(user) \o Segments(date_range)
\* f"inbox:messages:{user_id}:{platform}:{status}:{priority}:{date_range}:
\*   {search}:{page}:{limit}" of a request that passes only user_id
ListKey(user) ==
    <<"inbox", "messages">> \o Segments(user)
       \o <<"None", "None", "None", "last_7_days", "None", "1", "50">>

InboxKeys ==
    {StatsKey(u, d) : u \in InboxUsers, d \in DateRanges}
       \cup {ListKey(u) : u \in InboxUsers}

\* scan_iter(match=f"{prefix}:*"): the keys that start with prefix and ":"
MatchesPattern(key, prefix) ==
    /\ Len(key) > Len(prefix)
    /\ SubSeq(key, 1, Len(prefix)) = prefix

\* delete_pattern(f"inbox:messages:{user_id}:*")
DeleteListPattern(cache, user) ==
    [k \in InboxKeys |->
        IF MatchesPattern(k, <<"inbox", "messages">> \o Segments(user))
        THEN NoEntry ELSE cache[k]]
\* delete_pattern(f"inbox:stats:{user_id}:*")
DeleteStatsPattern(cache, user) ==
    [k \in InboxKeys |->
        IF MatchesPattern(k, <<"inbox", "stats">> \o Segments(user))
        THEN NoEntry ELSE cache[k]]

MessageIdInputs == (1..MaxMessages) \cup {MalformedId}
Priorities == {"high", "medium", "low"}
PriorityInputs == {"high", "medium", "urgent"}
TagsInputs == {<<>>, <<"vip">>}

\* the messages a query with {"user_id": user} finds; every message is
\* inside every date range asked for
UserMessages(user) ==
    {m \in 1..Len(inbox_messages) : inbox_messages[m].user_id = user}

\* the response of GET /messages, computed from the collection
ListBody(user) ==
    [user_id |-> user,
     messages |-> {[id |-> m,
                    read |-> inbox_messages[m].read,
                    archived |-> inbox_messages[m].archived,
                    priority |-> inbox_messages[m].priority,
                    tags |-> inbox_messages[m].tags] : m \in UserMessages(user)}]

\* the response of GET /stats, computed from the collection
StatsBody(user) ==
    [user_id |-> user,
     total_messages |-> Cardinality(UserMessages(user)),
     unread_count |->
        Cardinality({m \in UserMessages(user) : ~inbox_messages[m].read}),
     high_priority |->
        Cardinality({m \in UserMessages(user) :
                        inbox_messages[m].priority = "high"})]

InboxResp(op, code, body) ==
    [op |-> op, code |-> code, body |-> body]

\* Messages are inserted by the platform synchronisation, unread, not
\* archived, of medium priority and without tags.
InboxInit ==
    /\ inbox_messages \in UNION {[1..n -> [user_id : InboxUsers, read : {FALSE},
                                           archived : {FALSE},
                                           priority : {"medium"},
                                           tags : {<<>>}]]
                                 : n \in 1..MaxMessages}
    /\ inbox_cache = [k \in InboxKeys |-> NoEntry]
    /\ inbox_resp = InboxResp("none", 0, NoEntry)

\* GET /messages
get_messages(user) ==
    LET key == ListKey(user)
    IN
    /\ IF inbox_cache[key] # NoEntry
       THEN /\ inbox_resp' = InboxResp("get_messages", 200, inbox_cache[key])
            /\ UNCHANGED inbox_cache
       ELSE /\ inbox_cache' = [inbox_cache EXCEPT ![key] = ListBody(user)]
            /\ inbox_resp' = InboxResp("get_messages", 200, ListBody(user))
    /\ UNCHANGED inbox_messages
    /\ InboxFrame

\* GET /stats
get_inbox_stats(user, date_range) ==
    LET key == StatsKey(user, date_range)
    IN
    /\ IF inbox_cache[key] # NoEntry
       THEN /\ inbox_resp' = InboxResp("get_inbox_stats", 200, inbox_cache[key])
            /\ UNCHANGED inbox_cache
       ELSE /\ inbox_cache' = [inbox_cache EXCEPT ![key] = StatsBody(user)]
            /\ inbox_resp' = InboxResp("get_inbox_stats", 200, StatsBody(user))
    /\ UNCHANGED inbox_messages
    /\ InboxFrame

\* update_one({"_id": ObjectId(message_id), "user_id": user_id},
\*            {"$set": {field: value, ...}})
\* followed by the modified_count test and the cache invalidation.
\* stamps: the update also writes utcnow() into a *_at field, which differs
\* from any stored value, so a matched document always counts as modified.
\* stats_too: the handler also deletes the inbox:stats:* keys.
SingleFieldMutation(op, user, message_id, field, value, stamps, stats_too) ==
    LET matched == /\ message_id \in 1..Len(inbox_messages)
                   /\ inbox_messages[message_id].user_id = user
        modified_count ==
            IF matched /\ (stamps \/ inbox_messages[message_id][field] # value)
            THEN 1 ELSE 0
        after_list == DeleteListPattern(inbox_cache, user)
    IN
    IF message_id = MalformedId
    THEN /\ inbox_resp' = InboxResp(op, 500, NoEntry)
         /\ UNCHANGED <<inbox_messages, inbox_cache>>
    ELSE IF modified_count = 0
    THEN /\ inbox_resp' = InboxResp(op, 404, NoEntry)
         /\ UNCHANGED <<inbox_messages, inbox_cache>>
    ELSE /\ inbox_messages' =
               [inbox_messages EXCEPT ![message_id][field] = value]
         /\ inbox_cache' = IF stats_too
                           THEN DeleteStatsPattern(after_list, user)
                           ELSE after_list
         /\ inbox_resp' = InboxResp(op, 200, NoEntry)

\* PATCH /messages/{message_id}/mark-read
mark_message_as_read(user, message_id) ==
    /\ SingleFieldMutation("mark_message_as_read", user, message_id,
                           "read", TRUE, TRUE, TRUE)
    /\ InboxFrame

\* PATCH /messages/{message_id}/mark-unread
mark_message_as_unread(user, message_id) ==
    /\ SingleFieldMutation("mark_message_as_unread", user, message_id,
                           "read", FALSE, FALSE, TRUE)
    /\ InboxFrame

\* PATCH /messages/{message_id}/archive
archive_message(user, message_id) ==
    /\ SingleFieldMutation("archive_message", user, message_id,
                           "archived", TRUE, TRUE, TRUE)
    /\ InboxFrame

\* PATCH /messages/{message_id}/unarchive
unarchive_message(user, message_id) ==
    /\ SingleFieldMutation("unarchive_message", user, message_id,
                           "archived", FALSE, FALSE, TRUE)
    /\ InboxFrame

\* PATCH /messages/{message_id}/priority
update_message_priority(user, message_id, priority) ==
    /\ IF priority \notin Priorities
       THEN /\ inbox_resp' = InboxResp("update_message_priority", 400, NoEntry)
            /\ UNCHANGED <<inbox_messages, inbox_cache>>
       ELSE SingleFieldMutation("update_message_priority", user, message_id,
                                "priority", priority, FALSE, FALSE)
    /\ InboxFrame

\* PATCH /messages/{message_id}/tags
update_message_tags(user, message_id, tags) ==
    /\ SingleFieldMutation("update_message_tags", user, message_id,
                           "tags", tags, FALSE, FALSE)
    /\ InboxFrame

\* PATCH /messages/bulk/mark-read
bulk_mark_as_read(user, message_ids) ==
    /\ IF MalformedId \in message_ids
       THEN /\ inbox_resp' = InboxResp("bulk_mark_as_read", 500, NoEntry)
            /\ UNCHANGED <<inbox_messages, inbox_cache>>
       ELSE /\ inbox_messages' =
                  [m \in 1..Len(inbox_messages) |->
                      IF m \in message_ids /\ inbox_messages[m].user_id = user
                      THEN [inbox_messages[m] EXCEPT !.read = TRUE]
                      ELSE inbox_messages[m]]
            /\ inbox_cache' =
                  DeleteStatsPattern(DeleteListPattern(inbox_cache, user), user)
            /\ inbox_resp' = InboxResp("bulk_mark_as_read", 200, NoEntry)
    /\ InboxFrame

\* GET /messages/{message_id}: returns the message and marks it read
get_message_details(user, message_id) ==
    LET found == /\ message_id \in 1..Len(inbox_messages)
                 /\ inbox_messages[message_id].user_id = user
    IN
    /\ IF message_id = MalformedId
       THEN /\ inbox_resp' = InboxResp("get_message_details", 500, NoEntry)
            /\ UNCHANGED <<inbox_messages, inbox_cache>>
       ELSE IF ~found
       THEN /\ inbox_resp' = InboxResp("get_message_details", 404, NoEntry)
            /\ UNCHANGED <<inbox_messages, inbox_cache>>
       ELSE /\ inbox_messages' = [inbox_messages EXCEPT ![message_id].read = TRUE]
            /\ inbox_cache' =
                  DeleteStatsPattern(DeleteListPattern(inbox_cache, user), user)
            /\ inbox_resp' = InboxResp("get_message_details", 200,
                  [user_id |-> inbox_messages[message_id].user_id,
                   id |-> message_id])
    /\ InboxFrame

\* a Redis key reaches its time to live (120 s for the list, 300 s for
\* the statistics)
inbox_cache_expire(key) ==
    /\ inbox_cache[key] # NoEntry
    /\ inbox_cache' = [inbox_cache EXCEPT ![key] = NoEntry]
    /\ UNCHANGED <<inbox_messages, inbox_resp>>
    /\ InboxFrame

InboxNext ==
    \/ \E u \in InboxUsers : get_messages(u)
    \/ \E u \in InboxUsers, d \in DateRanges : get_inbox_stats(u, d)
    \/ \E u \in InboxUsers, m \in MessageIdInputs : mark_message_as_read(u, m)
    \/ \E u \in InboxUsers, m \in MessageIdInputs : mark_message_as_unread(u, m)
    \/ \E u \in InboxUsers, m \in MessageIdInputs : archive_message(u, m)
    \/ \E u \in InboxUsers, m \in MessageIdInputs : unarchive_message(u, m)
    \/ \E u \in InboxUsers, m \in MessageIdInputs, p \in PriorityInputs :
          update_message_priority(u, m, p)
    \/ \E u \in InboxUsers, m \in MessageIdInputs, t \in TagsInputs :
          update_message_tags(u, m, t)
    \/ \E u \in InboxUsers, ms \in SUBSET MessageIdInputs :
          bulk_mark_as_read(u, ms)
    \/ \E u \in InboxUsers, m \in MessageIdInputs : get_message_details(u, m)
    \/ \E k \in InboxKeys : inbox_cache_expire(k)

\* the message that (message_id, user) designates exists
MessageMatches(user, message_id) ==
    /\ message_id \in 1..Len(inbox_messages)
    /\ inbox_messages[message_id].user_id = user

\* C17: a mark-read, mark-unread, archive, unarchive, priority or tags
\* request with a well-formed message id (and a valid priority) is answered
\* 404 when no message matches (message id, user id), and 200 when one
\* does, whatever the values the message holds.
C17_NotFoundOnlyWhenNoMatch ==
    [][\A u \in InboxUsers, m \in 1..MaxMessages :
          (\/ mark_message_as_read(u, m)
           \/ mark_message_as_unread(u, m)
           \/ archive_message(u, m)
           \/ unarchive_message(u, m)
           \/ \E p \in PriorityInputs \cap Priorities :
                 update_message_priority(u, m, p)
           \/ \E t \in TagsInputs : update_message_tags(u, m, t))
          => inbox_resp'.code = IF MessageMatches(u, m) THEN 200 ELSE 404]_vars

\* C18: after a mark-read, mark-unread, archive, unarchive, priority or
\* tags request answered 200, Redis holds no message-list entry and no
\* statistics entry of the requesting user.
C18_MutationInvalidatesBothCaches ==
    [][\A u \in InboxUsers, m \in 1..MaxMessages :
          (/\ \/ mark_message_as_read(u, m)
              \/ mark_message_as_unread(u, m)
              \/ archive_message(u, m)
              \/ unarchive_message(u, m)
              \/ \E p \in PriorityInputs : update_message_priority(u, m, p)
              \/ \E t \in TagsInputs : update_message_tags(u, m, t)
           /\ inbox_resp'.code = 200)
          => /\ inbox_cache'[ListKey(u)] = NoEntry
             /\ \A d \in DateRanges : inbox_cache'[StatsKey(u, d)] = NoEntry]_vars

\* C19: a request made with a user id changes only messages of that user,
\* and a body it returns holds that user's data.
C19_OnlyOwnDocuments ==
    [][\A u \in InboxUsers :
          (\/ get_messages(u)
           \/ \E d \in DateRanges : get_inbox_stats(u, d)
           \/ \E m \in MessageIdInputs :
                 \/ mark_message_as_read(u, m)
                 \/ mark_message_as_unread(u, m)
                 \/ archive_message(u, m)
                 \/ unarchive_message(u, m)
                 \/ get_message_details(u, m)
                 \/ \E p \in PriorityInputs : update_message_priority(u, m, p)
                 \/ \E t \in TagsInputs : update_message_tags(u, m, t)
           \/ \E ms \in SUBSET MessageIdInputs : bulk_mark_as_read(u, ms))
          => /\ \A m \in 1..Len(inbox_messages) :
                   inbox_messages'[m] # inbox_messages[m]
                   => inbox_messages[m].user_id = u
             /\ inbox_resp'.body # NoEntry => inbox_resp'.body.user_id = u]_vars

(***************************************************************************)
(* Cold calling: history.py and the cached reads of overview.py            *)
(***************************************************************************)
MaxCalls == 2

valid_outcomes ==
    {"interested", "not_interested", "callback", "voicemail", "no_answer"}

\* outcome: str = Body(...), of which one is not a valid outcome
OutcomeInputs == {"interested", "callback", "bogus"}
\* outcome: Optional[str] = Body(None)
UpdateOutcomeInputs == OutcomeInputs \cup {NoneVal, ""}

IsoStrings == {"2026-01-05T10:00:00"}
\* follow_up_date: Optional[str] = Body(None)
FollowUpInputs == IsoStrings \cup {NoneVal, "", "next monday"}

CallIdInputs == (1..MaxCalls) \cup {MalformedId}

\* follow_up_datetime = None
NoDatetime == [missing |-> TRUE]

\* datetime.fromisoformat(follow_up_date)
fromisoformat(date_string) ==
    IF date_string \in IsoStrings
    THEN Returns([year |-> 2026, month |-> 1, day |-> 5, hour |-> 10])
    ELSE Raises("ValueError")

\* f"calls:overview:{user_id}:{date_range}:{agent_id}" and
\* f"calls:agents_summary:{user_id}:{date_range}", with the default
\* date_range and no agent filter
CallsKey(kind, user) == <<"calls", kind, user, "today">>
CallsKeys == {CallsKey(kind, u) : kind \in {"overview", "agents_summary"},
                                  u \in Users}

\* redis_service.delete_pattern(f"calls:{kind}:{user_id}:*")
DeleteCallsPattern(cache, kind, user) ==
    [k \in CallsKeys |->
        IF k[2] = kind /\ k[3] = user THEN NoEntry ELSE cache[k]]

\* find_one({"_id": ObjectId(call_id), "user_id": user_id})
FindCall(call_id, user) ==
    IF /\ call_id \in 1..MaxCalls
       /\ cold_calls[call_id] # NoDoc
       /\ cold_calls[call_id].user_id = user
    THEN cold_calls[call_id]
    ELSE NoDoc

UserCalls(user) ==
    {c \in 1..MaxCalls : cold_calls[c] # NoDoc /\ cold_calls[c].user_id = user}

\* the summary the two cached reads compute from the collection
CallsBody(user) ==
    [user_id |-> user,
     total_calls |-> Cardinality(UserCalls(user)),
     callbacks |-> Cardinality({c \in UserCalls(user) :
                                   cold_calls[c].outcome = "callback"})]

CallsInit ==
    /\ cold_calls = [c \in 1..MaxCalls |-> NoDoc]
    /\ n_calls = 0
    /\ calls_cache = [k \in CallsKeys |-> NoEntry]
    /\ calls_resp = NoRespBody

\* POST /history
create_call_record(user, outcome, follow_up_date) ==
    LET parsed == fromisoformat(follow_up_date)
        follow_up_datetime ==
            IF Truthy(follow_up_date) THEN parsed.value ELSE NoDatetime
        call_doc == [user_id |-> user,
                     outcome |-> outcome,
                     follow_up_date |-> follow_up_datetime]
        reject(code) ==
            /\ calls_resp' = RespBody("create_call_record", code, NoEntry)
            /\ UNCHANGED <<cold_calls, n_calls, calls_cache>>
    IN
    /\ n_calls < MaxCalls
    /\ IF outcome \notin valid_outcomes THEN reject(400)
       ELSE IF Truthy(follow_up_date) /\ parsed.raised THEN reject(400)
       ELSE /\ n_calls' = n_calls + 1
            /\ cold_calls' = [cold_calls EXCEPT ![n_calls + 1] = call_doc]
            /\ calls_cache' =
                  DeleteCallsPattern(
                      DeleteCallsPattern(calls_cache, "overview", user),
                      "agents_summary", user)
            /\ calls_resp' = RespBody("create_call_record", 200, NoEntry)
    /\ CallsFrame

\* PATCH /history/{call_id}
update_call_record(user, call_id, outcome, follow_up_date) ==
    LET call == FindCall(call_id, user)
        parsed == fromisoformat(follow_up_date)
        with_outcome ==
            IF Truthy(outcome) THEN [call EXCEPT !.outcome = outcome]
            ELSE call
        updated ==
            IF Truthy(follow_up_date)
            THEN [with_outcome EXCEPT !.follow_up_date = parsed.value]
            ELSE with_outcome
        reject(code) ==
            /\ calls_resp' = RespBody("update_call_record", code, NoEntry)
            /\ UNCHANGED <<cold_calls, calls_cache>>
    IN
    /\ IF call_id = MalformedId THEN reject(500)
       ELSE IF call = NoDoc THEN reject(404)
       ELSE IF Truthy(outcome) /\ outcome \notin valid_outcomes THEN reject(400)
       ELSE IF Truthy(follow_up_date) /\ parsed.raised THEN reject(400)
       ELSE /\ cold_calls' = [cold_calls EXCEPT ![call_id] = updated]
            /\ calls_cache' = DeleteCallsPattern(calls_cache, "overview", user)
            /\ calls_resp' = RespBody("update_call_record", 200, NoEntry)
    /\ UNCHANGED n_calls
    /\ CallsFrame

\* DELETE /history/{call_id}
delete_call_record(user, call_id) ==
    LET reject(code) ==
            /\ calls_resp' = RespBody("delete_call_record", code, NoEntry)
            /\ UNCHANGED <<cold_calls, calls_cache>>
    IN
    /\ IF call_id = MalformedId THEN reject(500)
       ELSE IF FindCall(call_id, user) = NoDoc THEN reject(404)
       ELSE /\ cold_calls' = [cold_calls EXCEPT ![call_id] = NoDoc]
            /\ calls_cache' =
                  DeleteCallsPattern(
                      DeleteCallsPattern(calls_cache, "overview", user),
                      "agents_summary", user)
            /\ calls_resp' = RespBody("delete_call_record", 200, NoEntry)
    /\ UNCHANGED n_calls
    /\ CallsFrame

\* the cached read shared by GET /overview and GET /stats/agents
CachedCallsRead(op, kind, user) ==
    LET key == CallsKey(kind, user)
    IN
    IF calls_cache[key] # NoEntry
    THEN /\ calls_resp' = RespBody(op, 200, calls_cache[key])
         /\ UNCHANGED calls_cache
    ELSE /\ calls_cache' = [calls_cache EXCEPT ![key] = CallsBody(user)]
         /\ calls_resp' = RespBody(op, 200, CallsBody(user))

\* GET /overview
get_overview(user) ==
    /\ CachedCallsRead("get_overview", "overview", user)
    /\ UNCHANGED <<cold_calls, n_calls>>
    /\ CallsFrame

\* GET /stats/agents
get_agents_summary(user) ==
    /\ CachedCallsRead("get_agents_summary", "agents_summary", user)
    /\ UNCHANGED <<cold_calls, n_calls>>
    /\ CallsFrame

\* a calls:* key reaches its ttl
calls_cache_expire(key) ==
    /\ calls_cache[key] # NoEntry
    /\ calls_cache' = [calls_cache EXCEPT ![key] = NoEntry]
    /\ UNCHANGED <<cold_calls, n_calls, calls_resp>>
    /\ CallsFrame

CallsNext ==
    \/ \E u \in Users, o \in OutcomeInputs, f \in FollowUpInputs :
          create_call_record(u, o, f)
    \/ \E u \in Users, c \in CallIdInputs, o \in UpdateOutcomeInputs,
          f \in FollowUpInputs :
          update_call_record(u, c, o, f)
    \/ \E u \in Users, c \in CallIdInputs : delete_call_record(u, c)
    \/ \E u \in Users : get_overview(u)
    \/ \E u \in Users : get_agents_summary(u)
    \/ \E k \in CallsKeys : calls_cache_expire(k)

\* C20: a call record carries a follow-up date only if its outcome is
\* callback.
C20_FollowUpOnlyForCallback ==
    \A c \in 1..MaxCalls :
        cold_calls[c] # NoDoc /\ cold_calls[c].follow_up_date # NoDatetime
        => cold_calls[c].outcome = "callback"

(***************************************************************************)
(* Routing: the route table main.py builds and Starlette's dispatch        *)
(***************************************************************************)
\* a path parameter such as {campaign_id}: it matches any one segment
Param == "{}"

Route(method, path, endpoint) ==
    [method |-> method, path |-> path, endpoint |-> endpoint]

\* src/app/api/v1/ads/campaigns.py, in the order of the decorators
ads_campaigns_router ==
    <<
       Route("GET", <<"campaigns">>,
             "ads.campaigns.get_campaigns"),
       Route("GET", <<"campaigns", Param>>,
             "ads.campaigns.get_campaign_details"),
       Route("GET", <<"campaigns", "top-performers">>,
             "ads.campaigns.get_top_performing_campaigns")
    >>

\* src/app/api/v1/ads/predictions.py, in the order of the decorators
ads_predictions_router ==
    <<
       Route("GET", <<"predictions">>,
             "ads.predictions.get_predictions"),
       Route("GET", <<"predictions", "campaign", Param>>,
             "ads.predictions.get_campaign_predictions"),
       Route("POST", <<"predictions", "generate">>,
             "ads.predictions.trigger_prediction_generation")
    >>

\* src/app/api/v1/inbox/messages.py, in the order of the decorators
inbox_messages_router ==
    <<
       Route("GET", <<"messages">>,
             "inbox.messages.get_messages"),
       Route("GET", <<"messages", Param>>,
             "inbox.messages.get_message_details"),
       Route("PATCH", <<"messages", Param, "mark-read">>,
             "inbox.messages.mark_message_as_read"),
       Route("PATCH", <<"messages", Param, "mark-unread">>,
             "inbox.messages.mark_message_as_unread"),
       Route("PATCH", <<"messages", "bulk", "mark-read">>,
             "inbox.messages.bulk_mark_as_read"),
       Route("PATCH", <<"messages", Param, "archive">>,
             "inbox.messages.archive_message"),
       Route("PATCH", <<"messages", Param, "unarchive">>,
             "inbox.messages.unarchive_message"),
       Route("POST", <<"messages", Param, "reply">>,
             "inbox.messages.reply_to_message"),
       Route("PATCH", <<"messages", Param, "priority">>,
             "inbox.messages.update_message_priority"),
       Route("PATCH", <<"messages", Param, "tags">>,
             "inbox.messages.update_message_tags"),
       Route("GET", <<"stats">>,
             "inbox.messages.get_inbox_stats")
    >>

\* src/app/api/v1/email_marketing/campaigns.py, in the order of the decorators
email_marketing_campaigns_router ==
    <<
       Route("GET", <<"campaigns">>,
             "email_marketing.campaigns.get_campaigns"),
       Route("GET", <<"campaigns", Param>>,
             "email_marketing.campaigns.get_campaign_details"),
       Route("POST", <<"campaigns">>,
             "email_marketing.campaigns.create_campaign"),
       Route("PATCH", <<"campaigns", Param>>,
             "email_marketing.campaigns.update_campaign"),
       Route("DELETE", <<"campaigns", Param>>,
             "email_marketing.campaigns.delete_campaign"),
       Route("POST", <<"campaigns", Param, "send">>,
             "email_marketing.campaigns.send_campaign"),
       Route("PATCH", <<"campaigns", Param, "archive">>,
             "email_marketing.campaigns.archive_campaign"),
       Route("GET", <<"campaigns", "top-performers">>,
             "email_marketing.campaigns.get_top_performing_campaigns")
    >>

\* src/app/api/v1/email_marketing/scheduled.py, in the order of the decorators
email_marketing_scheduled_router ==
    <<
       Route("GET", <<"scheduled">>,
             "email_marketing.scheduled.get_scheduled_campaigns"),
       Route("POST", <<"scheduled">>,
             "email_marketing.scheduled.schedule_campaign"),
       Route("GET", <<"scheduled", Param>>,
             "email_marketing.scheduled.get_schedule_details"),
       Route("PATCH", <<"scheduled", Param>>,
             "email_marketing.scheduled.update_schedule"),
       Route("DELETE", <<"scheduled", Param>>,
             "email_marketing.scheduled.cancel_scheduled_campaign"),
       Route("GET", <<"scheduled", "upcoming">>,
             "email_marketing.scheduled.get_upcoming_sends"),
       Route("GET", <<"scheduled", "calendar">>,
             "email_marketing.scheduled.get_send_calendar"),
       Route("GET", <<"scheduled", "stats">>,
             "email_marketing.scheduled.get_scheduling_stats"),
       Route("POST", <<"scheduled", Param, "send-now">>,
             "email_marketing.scheduled.send_scheduled_campaign_now")
    >>

\* src/app/api/v1/cold_calling/history.py, in the order of the decorators
cold_calling_history_router ==
    <<
       Route("GET", <<"history">>,
             "cold_calling.history.get_call_history"),
       Route("GET", <<"history", Param>>,
             "cold_calling.history.get_call_details"),
       Route("POST", <<"history">>,
             "cold_calling.history.create_call_record"),
       Route("PATCH", <<"history", Param>>,
             "cold_calling.history.update_call_record"),
       Route("DELETE", <<"history", Param>>,
             "cold_calling.history.delete_call_record"),
       Route("GET", <<"history", "followups">>,
             "cold_calling.history.get_follow_ups")
    >>

\* src/app/api/v1/branding/scheduled_posts.py, in the order of the decorators
branding_scheduled_posts_router ==
    <<
       Route("GET", <<"scheduled-posts">>,
             "branding.scheduled_posts.get_scheduled_posts"),
       Route("GET", <<"scheduled-posts", Param>>,
             "branding.scheduled_posts.get_scheduled_post_details"),
       Route("POST", <<"scheduled-posts">>,
             "branding.scheduled_posts.create_scheduled_post"),
       Route("PATCH", <<"scheduled-posts", Param>>,
             "branding.scheduled_posts.update_scheduled_post"),
       Route("DELETE", <<"scheduled-posts", Param>>,
             "branding.scheduled_posts.cancel_scheduled_post"),
       Route("GET", <<"scheduled-posts", "calendar">>,
             "branding.scheduled_posts.get_content_calendar"),
       Route("POST", <<"scheduled-posts", Param, "publish-now">>,
             "branding.scheduled_posts.publish_post_now")
    >>

\* include_router(router, prefix=...): every path gets the prefix in front
include_router(router, prefix) ==
    [i \in 1..Len(router) |->
        [router[i] EXCEPT !.path = prefix \o router[i].path]]

\* settings.API_V1_PREFIX
API_V1_PREFIX == <<"api", "v1">>

\* app.routes: the routers in the order main.py and the packages'
\* __init__.py include them.  src/app/api/v1/predictions.py is imported by
\* no module and included nowhere.
app_routes ==
    include_router(ads_campaigns_router \o ads_predictions_router,
                   API_V1_PREFIX \o <<"ads">>)
    \o include_router(inbox_messages_router, API_V1_PREFIX \o <<"inbox">>)
    \o include_router(email_marketing_campaigns_router
                      \o email_marketing_scheduled_router,
                      API_V1_PREFIX \o <<"email-marketing">>)
    \o include_router(cold_calling_history_router,
                      API_V1_PREFIX \o <<"cold-calling">>)
    \o include_router(branding_scheduled_posts_router,
                      API_V1_PREFIX \o <<"branding">>)

\* the path regex compiled from a route's path: segment by segment, a
\* parameter matching any non-empty segment
PathMatches(template, path) ==
    /\ Len(template) = Len(path)
    /\ \A i \in 1..Len(path) : template[i] = Param \/ template[i] = path[i]

Min(S) == CHOOSE x \in S : \A y \in S : x <= y

\* Router.__call__: the first route that matches path and method serves the
\* request; failing that, a route that matches the path alone answers 405;
\* failing that, 404.
Dispatch(method, path) ==
    LET partial == {i \in 1..Len(app_routes) :
                       PathMatches(app_routes[i].path, path)}
        full == {i \in partial : app_routes[i].method = method}
    IN
    IF full # {} THEN app_routes[Min(full)].endpoint
    ELSE IF partial # {} THEN "405 Method Not Allowed"
    ELSE "404 Not Found"

Methods == {"GET", "POST", "PATCH", "DELETE"}
Mounts == {"ads", "inbox", "email-marketing", "cold-calling", "branding"}
Resources == {"campaigns", "scheduled", "scheduled-posts", "history",
              "messages", "predictions"}
\* second segments: an ObjectId and the static names
SecondSegments == {"65a1f0c2", "top-performers", "upcoming", "calendar",
                   "stats", "followups", "bulk"}
ThirdSegments == {"mark-read", "send", "archive"}

RequestPaths ==
    {API_V1_PREFIX \o <<"predictions">>}
    \cup {API_V1_PREFIX \o <<m, r>> : m \in Mounts, r \in Resources}
    \cup {API_V1_PREFIX \o <<m, r, s>> :
             m \in Mounts, r \in Resources, s \in SecondSegments}
    \cup {API_V1_PREFIX \o <<m, r, s, t>> :
             m \in Mounts, r \in Resources, s \in SecondSegments,
             t \in ThirdSegments}

\* no call made, or a call that has not returned yet
NoCall == [fn |-> "none"]

\* the HTTP requests the application is sent
DispatchCalls ==
    {[fn |-> "dispatch", method |-> m, path |-> p] :
        m \in Methods, p \in RequestPaths}

\* one HTTP request reaching the application
dispatch ==
    /\ fn_call.fn = "dispatch"
    /\ fn_result = NoCall
    /\ fn_result' = [endpoint |-> Dispatch(fn_call.method, fn_call.path)]
    /\ UNCHANGED fn_call
    /\ LibFrame

\* the endpoints with a static sub-path, and the generic predictions route,
\* each with the handler that is written for it
DocumentedStatic ==
    {Route("GET", API_V1_PREFIX \o <<"ads", "campaigns", "top-performers">>,
           "ads.campaigns.get_top_performing_campaigns"),
     Route("GET",
           API_V1_PREFIX \o <<"email-marketing", "campaigns", "top-performers">>,
           "email_marketing.campaigns.get_top_performing_campaigns"),
     Route("GET", API_V1_PREFIX \o <<"email-marketing", "scheduled", "upcoming">>,
           "email_marketing.scheduled.get_upcoming_sends"),
     Route("GET", API_V1_PREFIX \o <<"email-marketing", "scheduled", "calendar">>,
           "email_marketing.scheduled.get_send_calendar"),
     Route("GET", API_V1_PREFIX \o <<"email-marketing", "scheduled", "stats">>,
           "email_marketing.scheduled.get_scheduling_stats"),
     Route("GET", API_V1_PREFIX \o <<"branding", "scheduled-posts", "calendar">>,
           "branding.scheduled_posts.get_content_calendar"),
     Route("GET", API_V1_PREFIX \o <<"cold-calling", "history", "followups">>,
           "cold_calling.history.get_follow_ups"),
     Route("PATCH", API_V1_PREFIX \o <<"inbox", "messages", "bulk", "mark-read">>,
           "inbox.messages.bulk_mark_as_read"),
     Route("GET", API_V1_PREFIX \o <<"predictions">>,
           "predictions.get_predictions")}

\* C21: a request to a documented static sub-path, or to the generic
\* /api/v1/predictions route, is served by that endpoint's own handler.
C21_StaticPathsReachTheirHandler ==
    \A e \in DocumentedStatic :
        (/\ fn_call.fn = "dispatch"
         /\ fn_call.method = e.method
         /\ fn_call.path = e.path
         /\ fn_result # NoCall)
        => fn_result.endpoint = e.endpoint

(***************************************************************************)
(* Pagination of the list endpoints                                        *)
(***************************************************************************)
MaxTotalCount == 6
MaxPage == 4
MaxLimit == 4

\* find(query_filter).skip((page - 1) * limit).limit(limit).to_list(limit):
\* how many of the total_count matching documents the page holds
PageLength(total_count, page, limit) ==
    LET skip == (page - 1) * limit
        rest == IF total_count > skip THEN total_count - skip ELSE 0
    IN IF rest < limit THEN rest ELSE limit

\* total_pages = total_count // limit
Pagination_floor(total_count, page, limit) ==
    LET total_pages == total_count \div limit
    IN [returned |-> PageLength(total_count, page, limit),
        page |-> page,
        limit |-> limit,
        total |-> total_count,
        total_pages |-> total_pages,
        has_next |-> page < total_pages,
        has_previous |-> page > 1]

\* the "pagination" object of a list response, with the length of the list
\* beside it
Pagination(total_count, page, limit) ==
    LET total_pages == (total_count + limit - 1) \div limit
    IN [returned |-> PageLength(total_count, page, limit),
        page |-> page,
        limit |-> limit,
        total |-> total_count,
        total_pages |-> total_pages,
        has_next |-> page < total_pages,
        has_previous |-> page > 1]

\* page: int = Query(1, ge=1), limit: int = Query(50, ge=1, le=...) and the
\* count_documents(query_filter) the database answers
PaginateCalls ==
    {[fn |-> "paginate", total_count |-> t, page |-> pg, limit |-> l] :
        t \in 0..MaxTotalCount, pg \in 1..MaxPage, l \in 1..MaxLimit}

\* a list endpoint computing its page
paginate ==
    /\ fn_call.fn = "paginate"
    /\ fn_result = NoCall
    /\ fn_result' =
          Pagination(fn_call.total_count, fn_call.page, fn_call.limit)
    /\ UNCHANGED fn_call
    /\ LibFrame

\* ceil(a / b) for a >= 0, b >= 1: the least n with n * b >= a
Ceil(a, b) == CHOOSE n \in 0..a : n * b >= a /\ \A k \in 0..a : k * b >= a => n <= k

\* C22: total_pages = ceil(total_count / limit), has_next = (page <
\* total_pages), has_previous = (page > 1), and page 1 of an empty
\* collection is an empty list with total_pages = 0.
C22_PaginationInvariants ==
    (fn_call.fn = "paginate" /\ fn_result # NoCall)
    => /\ fn_result.total_pages = Ceil(fn_call.total_count, fn_call.limit)
       /\ fn_result.has_next
             <=> fn_call.page < Ceil(fn_call.total_count, fn_call.limit)
       /\ fn_result.has_previous <=> fn_call.page > 1
       /\ (fn_call.total_count = 0 /\ fn_call.page = 1)
             => fn_result.returned = 0 /\ fn_result.total_pages = 0

\* a last, partly filled page has been computed
C22_Witness ==
    /\ fn_call.fn = "paginate"
    /\ fn_result # NoCall
    /\ fn_call.total_count = 5
    /\ fn_call.limit = 2
    /\ fn_call.page = 3
    /\ fn_result.returned = 1
    /\ ~fn_result.has_next

(***************************************************************************)
(* Date windows: utils/date_helpers.py.  A datetime is a number of hours   *)
(* since a midnight; a timedelta is a number of hours.                     *)
(***************************************************************************)
HoursPerDay == 24
MaxClockHours == 47
MaxWindowHours == 49

\* timedelta.days: whole days, rounded down
TimedeltaDays(delta) == delta \div HoursPerDay

\* dt.replace(hour=0, minute=0, second=0, microsecond=0)
Midnight(dt) == dt - (dt % HoursPerDay)

RangeTypes == {"today", "yesterday", "last_7_days", "custom", "unknown"}

\* get_date_range, with datetime.utcnow() = utcnow and the custom bounds
\* already parsed
get_date_range(range_type, utcnow, start_date, end_date) ==
    CASE range_type = "custom" ->
            [start_date |-> start_date, end_date |-> end_date]
      [] range_type = "today" ->
            [start_date |-> Midnight(utcnow), end_date |-> utcnow]
      [] range_type = "yesterday" ->
            [start_date |-> Midnight(utcnow - HoursPerDay),
             end_date |-> Midnight(utcnow)]
      [] range_type = "last_7_days" ->
            [start_date |-> utcnow - 7 * HoursPerDay, end_date |-> utcnow]
      [] OTHER ->
            [start_date |-> utcnow - 7 * HoursPerDay, end_date |-> utcnow]

\* get_previous_period
get_previous_period(start_date, end_date) ==
    LET period_length == TimedeltaDays(end_date - start_date)
        previous_end == start_date
        previous_start == previous_end - period_length * HoursPerDay
    IN [start_date |-> previous_start, end_date |-> previous_end]

\* the named ranges at every hour of two days, and custom windows of every
\* length from 0 to MaxWindowHours
PreviousPeriodCalls ==
    {[fn |-> "previous_period", range_type |-> r, utcnow |-> n,
      start_date |-> 0, end_date |-> 0] :
        r \in RangeTypes \ {"custom"}, n \in 0..MaxClockHours}
    \cup {[fn |-> "previous_period", range_type |-> "custom", utcnow |-> 0,
           start_date |-> 0, end_date |-> e] : e \in 0..MaxWindowHours}

\* an endpoint resolving its window and the period before it
previous_period ==
    LET window == get_date_range(fn_call.range_type, fn_call.utcnow,
                                 fn_call.start_date, fn_call.end_date)
    IN
    /\ fn_call.fn = "previous_period"
    /\ fn_result = NoCall
    /\ fn_result' =
          [window |-> window,
           previous |-> get_previous_period(window.start_date,
                                            window.end_date)]
    /\ UNCHANGED fn_call
    /\ LibFrame

\* C23: the previous period of a resolved window [start, end] ends at start
\* and lasts exactly end - start.
C23_PreviousPeriodMirrorsWindow ==
    (fn_call.fn = "previous_period" /\ fn_result # NoCall)
    => /\ fn_result.previous.end_date = fn_result.window.start_date
       /\ fn_result.previous.end_date - fn_result.previous.start_date
             = fn_result.window.end_date - fn_result.window.start_date

(***************************************************************************)
(* PredictionEngine._forecast_metric.  The function computes with floats;  *)
(* here every returned number is carried as a whole number of              *)
(* 1 / (392 * window_size)-ths, which makes the mean, the trend and the    *)
(* margin exact except for the square root of np.std, rounded down.        *)
(***************************************************************************)
MaxSeriesLen == 3
MaxLongSeries == 15

RECURSIVE SeqSum(_)
SeqSum(values) ==
    IF Len(values) = 0 THEN 0 ELSE Head(values) + SeqSum(Tail(values))

\* values[-n:] for 0 < n <= len(values); values[-0:] is the whole list
LastN(values, n) ==
    IF n = 0 THEN values
    ELSE SubSeq(values, Len(values) - n + 1, Len(values))

PyMax(a, b) == IF a >= b THEN a ELSE b
PyAbs(a) == IF a >= 0 THEN a ELSE -a

\* the whole part of the square root
ISqrt(n) == CHOOSE r \in 0..n : r * r <= n /\ n < (r + 1) * (r + 1)

\* the body of _forecast_metric after the moving average, with
\* unit = 1 / (392 * window_size); clamp_lower says whether "lower" is
\* max(0, ...)
ForecastFrom(values, forecast_days, invert_trend, clamp_lower) ==
    LET window_size == IF Len(values) < 7 THEN Len(values) ELSE 7
        recent_values == LastN(values, window_size)
        total == SeqSum(recent_values)
        mean_value == 392 * total
        recent_sum == SeqSum(LastN(values, 7))
        older_sum == SeqSum(SubSeq(values, Len(values) - 13, Len(values) - 7))
        trend == IF Len(values) >= 14
                 THEN 8 * window_size * (recent_sum - older_sum)
                 ELSE 0
        daily_trend == IF invert_trend THEN -PyAbs(trend) ELSE trend
        forecasted_value == PyMax(0, mean_value + daily_trend * forecast_days)
        squares == SeqSum([i \in 1..Len(recent_values) |->
                              recent_values[i] * recent_values[i]])
        std_dev == IF Len(recent_values) > 1
                   THEN 392 * ISqrt(window_size * squares - total * total)
                   ELSE 98 * total
        margin == (3 * std_dev) \div 2
    IN [mean |-> forecasted_value,
        lower |-> IF clamp_lower THEN PyMax(0, forecasted_value - margin)
                  ELSE forecasted_value - margin,
        upper |-> forecasted_value + margin]

\* "lower": forecasted_value - margin
forecast_metric_unclamped(values, forecast_days, invert_trend) ==
    IF Len(values) = 0 THEN Raises("ZeroDivisionError")
    ELSE Returns(ForecastFrom(values, forecast_days, invert_trend, FALSE))

\* _forecast_metric: sum(recent_values) / len(recent_values) divides by
\* zero on an empty list
forecast_metric(values, forecast_days, invert_trend) ==
    IF Len(values) = 0 THEN Raises("ZeroDivisionError")
    ELSE Returns(ForecastFrom(values, forecast_days, invert_trend, TRUE))

\* every series of up to MaxSeriesLen values, negative ones included
ShortSeries ==
    UNION {[1..n -> {-2, 0, 5}] : n \in 0..MaxSeriesLen}

\* series long enough for the trend: all-zero, falling to zero, falling
\* steeply, rising, and flat then collapsing
LongSeries ==
    {[i \in 1..n |-> 0] : n \in 14..MaxLongSeries}
    \cup {[i \in 1..n |-> PyMax(0, 20 - 2 * i)] : n \in 14..MaxLongSeries}
    \cup {[i \in 1..n |-> 10 * (n - i)] : n \in 14..MaxLongSeries}
    \cup {[i \in 1..n |-> 3 * i] : n \in 14..MaxLongSeries}
    \cup {[i \in 1..n |-> IF i <= n - 7 THEN 50 ELSE 1] :
             n \in 14..MaxLongSeries}

\* forecast_days = 7 if prediction_period == "next_7_days" else 30
ForecastDays == {7, 30}

ForecastCalls ==
    {[fn |-> "forecast_metric", values |-> v, forecast_days |-> d,
      invert_trend |-> inv] :
        v \in ShortSeries \cup LongSeries, d \in ForecastDays,
        inv \in BOOLEAN}

\* one call of _forecast_metric
forecast ==
    /\ fn_call.fn = "forecast_metric"
    /\ fn_result = NoCall
    /\ fn_result' = forecast_metric(fn_call.values, fn_call.forecast_days,
                                    fn_call.invert_trend)
    /\ UNCHANGED fn_call
    /\ LibFrame

\* C24 as stated: for any series, the empty one included, _forecast_metric
\* returns a result whose mean and lower bound are >= 0.
C24_ForecastNonNegativeAnySeries ==
    (fn_call.fn = "forecast_metric" /\ fn_result # NoCall)
    => /\ ~fn_result.raised
       /\ fn_result.value.mean >= 0
       /\ fn_result.value.lower >= 0

\* C24, amended: for any non-empty series _forecast_metric returns a result
\* whose mean and lower bound are >= 0; for the empty series it raises
\* ZeroDivisionError.
C24_ForecastNonNegative ==
    (fn_call.fn = "forecast_metric" /\ fn_result # NoCall)
    => IF Len(fn_call.values) = 0
       THEN fn_result = Raises("ZeroDivisionError")
       ELSE /\ ~fn_result.raised
            /\ fn_result.value.mean >= 0
            /\ fn_result.value.lower >= 0

\* a collapsing series whose trend carries the forecast below zero before
\* the clamp, and whose margin exceeds the clamped forecast
C24_Witness ==
    /\ fn_call.fn = "forecast_metric"
    /\ fn_result # NoCall
    /\ Len(fn_call.values) >= 14
    /\ fn_call.values[Len(fn_call.values)] < fn_call.values[1]
    /\ ~fn_result.raised
    /\ fn_result.value.mean = 0
    /\ fn_result.value.lower = 0
    /\ fn_result.value.upper > 0

(***************************************************************************)
(* Cold calling: the conversion funnel of analytics.py                     *)
(***************************************************************************)
MaxOutcomeCount == 2

\* the values of the outcome field the $group stage can meet: the five
\* valid outcomes and a value written by something other than the API
GroupedOutcomes == valid_outcomes \cup {"legacy"}

\* outcome_counts.get(key, 0)
DictGet(dict, key, default) ==
    IF key \in DOMAIN dict THEN dict[key] ELSE default

\* sum(outcome_counts.values())
RECURSIVE SumValues(_)
SumValues(dict) ==
    IF DOMAIN dict = {} THEN 0
    ELSE LET k == CHOOSE x \in DOMAIN dict : TRUE
         IN dict[k] + SumValues([x \in DOMAIN dict \ {k} |-> dict[x]])

\* funnel_stages = [...]: the four stages with their drop-offs
FunnelOf(stage_1_total, stage_2_contacted, stage_3_positive, stage_4_interested) ==
    <<[stage |-> 1, count |-> stage_1_total, drop_off |-> 0],
      [stage |-> 2, count |-> stage_2_contacted,
       drop_off |-> stage_1_total - stage_2_contacted],
      [stage |-> 3, count |-> stage_3_positive,
       drop_off |-> stage_2_contacted - stage_3_positive],
      [stage |-> 4, count |-> stage_4_interested,
       drop_off |-> stage_3_positive - stage_4_interested]>>

\* stage 1 counting only the calls that were answered with a callback or
\* an interest
funnel_stages_positive_total(outcome_counts) ==
    FunnelOf(DictGet(outcome_counts, "interested", 0)
                + DictGet(outcome_counts, "callback", 0),
             DictGet(outcome_counts, "interested", 0)
                + DictGet(outcome_counts, "callback", 0)
                + DictGet(outcome_counts, "not_interested", 0),
             DictGet(outcome_counts, "interested", 0)
                + DictGet(outcome_counts, "callback", 0),
             DictGet(outcome_counts, "interested", 0))

\* funnel_stages of get_conversion_funnel
funnel_stages(outcome_counts) ==
    FunnelOf(SumValues(outcome_counts),
             DictGet(outcome_counts, "interested", 0)
                + DictGet(outcome_counts, "callback", 0)
                + DictGet(outcome_counts, "not_interested", 0),
             DictGet(outcome_counts, "interested", 0)
                + DictGet(outcome_counts, "callback", 0),
             DictGet(outcome_counts, "interested", 0))

\* {item['_id']: item['count'] for item in outcome_data}: one key for each
\* outcome that occurs, with the number of calls that have it
OutcomeCounts ==
    UNION {[present -> 1..MaxOutcomeCount] : present \in SUBSET GroupedOutcomes}

FunnelCalls ==
    {[fn |-> "conversion_funnel", outcome_counts |-> c] : c \in OutcomeCounts}

\* GET /analytics/conversion-funnel on a cache miss
get_conversion_funnel ==
    /\ fn_call.fn = "conversion_funnel"
    /\ fn_result = NoCall
    /\ fn_result' = [funnel_stages |-> funnel_stages(fn_call.outcome_counts)]
    /\ UNCHANGED fn_call
    /\ LibFrame

\* C25: the funnel's counts never increase from one stage to the next, and
\* each later stage's drop_off is the previous count minus its own, >= 0.
C25_FunnelMonotone ==
    (fn_call.fn = "conversion_funnel" /\ fn_result # NoCall)
    => LET f == fn_result.funnel_stages
       IN /\ \A i \in 2..4 :
                /\ f[i - 1].count >= f[i].count
                /\ f[i].drop_off = f[i - 1].count - f[i].count
          /\ \A i \in 1..4 : f[i].drop_off >= 0

\* a funnel with calls lost at every stage
C25_Witness ==
    /\ fn_call.fn = "conversion_funnel"
    /\ fn_result # NoCall
    /\ \A i \in 2..4 : fn_result.funnel_stages[i].drop_off > 0
    /\ fn_result.funnel_stages[4].count > 0

\* every call the library specification makes
LibCalls ==
    DispatchCalls \cup PaginateCalls \cup PreviousPeriodCalls
    \cup ForecastCalls \cup FunnelCalls

LibInit ==
    /\ fn_call \in LibCalls
    /\ fn_result = NoCall

LibNext ==
    \/ dispatch
    \/ paginate
    \/ previous_period
    \/ forecast
    \/ get_conversion_funnel

(***************************************************************************)
(* Concurrent prediction requests: ads/predictions.py get_predictions and  *)
(* seo/growth_report.py get_growth_report.  A request gives up control at  *)
(* each `await`; between two awaits of one request any step of the other   *)
(* may run.  Each action below is the code from one await to the next.     *)
(***************************************************************************)
MaxRequests == 2
RequestIds == 1..MaxRequests

\* the clock of the concurrent runs advances StepHours at a time to here
RaceMaxNow == 42

DomainInputs == {NoneVal}

\* f"seo:growth_report:{user_id}:{domain}:{prediction_period}"
GrowthKeys == [user_id : Users, domain : DomainInputs,
               prediction_period : PeriodInputs]

\* Collection seo_metrics (no endpoint writes it): u1 has 14 daily rows of
\* the last 90 days, u2 has 13.
SeoRowsLast90(user, domain) == IF user = "u1" THEN 14 ELSE 13

\* what a request holds between its awaits: where it is, its query
\* parameters (subject is platform for ads, domain for SEO) and the
\* response it is building
Request(pc, handler, user, subject, period, force, code, body) ==
    [pc |-> pc, handler |-> handler, user_id |-> user, subject |-> subject,
     prediction_period |-> period, force_refresh |-> force,
     code |-> code, body |-> body]

\* a request slot no client has used yet
NotStarted ==
    Request("not_started", "none", NoneVal, NoneVal, NoneVal, FALSE, 0, NoEntry)

\* request r moves on to `pc`
Goto(r, pc) == [inflight EXCEPT ![r].pc = pc]
\* request r returns, or raises HTTPException(code)
Return(r, code, body) ==
    [inflight EXCEPT ![r].pc = "done", ![r].code = code, ![r].body = body]

At(r, handler, pc) ==
    /\ inflight[r].pc = pc
    /\ inflight[r].handler = handler

RaceKey(r) ==
    IF inflight[r].handler = "get_predictions"
    THEN [user_id |-> inflight[r].user_id, platform |-> inflight[r].subject,
          prediction_period |-> inflight[r].prediction_period]
    ELSE [user_id |-> inflight[r].user_id, domain |-> inflight[r].subject,
          prediction_period |-> inflight[r].prediction_period]

\* redis get on the growth-report keys
GrowthCacheGet(key) ==
    IF growth_cache[key] # NoEntry /\ growth_cache[key].expires_at > now
    THEN growth_cache[key].body ELSE NoEntry

\* prediction_doc of either handler, with the _id insert_one gives it
PredictionDoc(r) ==
    IF inflight[r].handler = "get_predictions"
    THEN [id |-> Cardinality(predictions) + 5, user_id |-> inflight[r].user_id,
          type |-> "ad_performance", platform |-> inflight[r].subject,
          prediction_period |-> inflight[r].prediction_period,
          predicted_metrics |-> "computed", generated_at |-> now]
    ELSE [id |-> Cardinality(predictions) + 5, user_id |-> inflight[r].user_id,
          type |-> "seo_growth", domain |-> inflight[r].subject,
          prediction_period |-> inflight[r].prediction_period,
          predicted_metrics |-> "computed", generated_at |-> now]

\* an insert that is skipped when the collection already holds a document
\* of the same user, type and period generated in the last 24 hours
insert_one_unless_fresh(collection, doc) ==
    IF \E d \in collection :
          /\ d.user_id = doc.user_id
          /\ d.type = doc.type
          /\ d.prediction_period = doc.prediction_period
          /\ doc.generated_at - d.generated_at < FreshHours
    THEN collection
    ELSE collection \cup {doc}

\* await db.predictions.insert_one(prediction_doc)
insert_one(collection, doc) == collection \cup {doc}

RaceInit ==
    /\ now = StartHour
    /\ predictions \in
          {{}, {PredDoc(CHOOSE sh \in SeedShapes : sh.id = 1, 0)}}
    /\ pred_cache = [k \in PredKeys |-> NoEntry]
    /\ pred_resp = NoRespBody
    /\ inflight = [r \in RequestIds |-> NotStarted]
    /\ growth_cache = [k \in GrowthKeys |-> NoEntry]

\* a client sends GET /predictions (ads); the handler runs to its first await
begin_get_predictions(r, user, platform, prediction_period, force_refresh) ==
    /\ inflight[r] = NotStarted
    /\ inflight' = [inflight EXCEPT ![r] =
          Request(IF force_refresh THEN "find_one" ELSE "redis_get",
                  "get_predictions", user, platform, prediction_period,
                  force_refresh, 0, NoEntry)]
    /\ UNCHANGED <<pred_vars, growth_cache>>
    /\ RaceFrame

\* a client sends GET /growth-report (SEO)
begin_get_growth_report(r, user, domain, prediction_period) ==
    /\ inflight[r] = NotStarted
    /\ inflight' = [inflight EXCEPT ![r] =
          Request("redis_get", "get_growth_report", user, domain,
                  prediction_period, FALSE, 0, NoEntry)]
    /\ UNCHANGED <<pred_vars, growth_cache>>
    /\ RaceFrame

\* cached_data = await redis_service.get(cache_key)
redis_get(r) ==
    /\ inflight[r].pc = "redis_get"
    /\ LET cached == IF inflight[r].handler = "get_predictions"
                     THEN CacheGet(RaceKey(r))
                     ELSE GrowthCacheGet(RaceKey(r))
       IN inflight' =
            IF cached # NoEntry THEN Return(r, 200, cached)
            ELSE IF inflight[r].handler = "get_predictions"
            THEN Goto(r, "find_one")
            ELSE Goto(r, "to_list")
    /\ UNCHANGED <<pred_vars, growth_cache>>
    /\ RaceFrame

\* existing_prediction = await db.predictions.find_one(prediction_filter):
\* the freshness check of get_predictions
find_one(r) ==
    /\ At(r, "get_predictions", "find_one")
    /\ LET fresh == FreshPredictions(inflight[r].user_id, inflight[r].subject,
                                     inflight[r].prediction_period)
       IN IF fresh # {} /\ ~inflight[r].force_refresh
          THEN \E d \in fresh :
                 inflight' = [inflight EXCEPT ![r].pc = "redis_set",
                    ![r].code = 200,
                    ![r].body = [predictions |-> d.predicted_metrics,
                                 generated_at |-> d.generated_at,
                                 source |-> "database"]]
          ELSE inflight' = Goto(r, "to_list")
    /\ UNCHANGED <<pred_vars, growth_cache>>
    /\ RaceFrame

\* historical_data = await cursor.to_list(length=None), the length test and
\* the call of the prediction engine, up to the await of insert_one
to_list(r) ==
    /\ inflight[r].pc = "to_list"
    /\ LET ads == inflight[r].handler = "get_predictions"
           rows == IF ads
                   THEN AdRowsLast90(inflight[r].user_id, inflight[r].subject)
                   ELSE SeoRowsLast90(inflight[r].user_id, inflight[r].subject)
           method == IF ads THEN "predict_ad_performance"
                     ELSE "predict_seo_growth"
       IN inflight' =
            IF rows < MinHistoryRows THEN Return(r, 400, NoEntry)
            ELSE IF CallMethod(PredictionEngineMethods, method)
                    = "AttributeError"
            THEN Return(r, 500, NoEntry)
            ELSE Goto(r, "insert_one")
    /\ UNCHANGED <<pred_vars, growth_cache>>
    /\ RaceFrame

\* await db.predictions.insert_one(prediction_doc), and the response built
\* after it
store_prediction(r) ==
    /\ inflight[r].pc = "insert_one"
    /\ predictions' = insert_one(predictions, PredictionDoc(r))
    /\ inflight' = [inflight EXCEPT ![r].pc = "redis_set", ![r].code = 200,
          ![r].body = [predictions |-> "computed", generated_at |-> now,
                       source |-> "freshly_generated"]]
    /\ UNCHANGED <<now, pred_cache, pred_resp, growth_cache>>
    /\ RaceFrame

\* await redis_service.set(cache_key, response, ttl=86400); return response
redis_set(r) ==
    /\ inflight[r].pc = "redis_set"
    /\ LET entry == [body |-> inflight[r].body,
                     expires_at |-> now + CacheTtlHours]
       IN IF inflight[r].handler = "get_predictions"
          THEN /\ pred_cache' = [pred_cache EXCEPT ![RaceKey(r)] = entry]
               /\ UNCHANGED growth_cache
          ELSE /\ growth_cache' = [growth_cache EXCEPT ![RaceKey(r)] = entry]
               /\ UNCHANGED pred_cache
    /\ inflight' = Goto(r, "done")
    /\ UNCHANGED <<now, predictions, pred_resp>>
    /\ RaceFrame

\* time passes; Redis drops the keys whose ttl has run out
RaceTick ==
    /\ now + StepHours <= RaceMaxNow
    /\ now' = now + StepHours
    /\ pred_cache' = [k \in PredKeys |->
          IF pred_cache[k] # NoEntry /\ pred_cache[k].expires_at <= now + StepHours
          THEN NoEntry ELSE pred_cache[k]]
    /\ growth_cache' = [k \in GrowthKeys |->
          IF growth_cache[k] # NoEntry
             /\ growth_cache[k].expires_at <= now + StepHours
          THEN NoEntry ELSE growth_cache[k]]
    /\ UNCHANGED <<predictions, pred_resp, inflight>>
    /\ RaceFrame

RaceNext ==
    \/ \E r \in RequestIds, u \in Users, p \in PlatformInputs,
          per \in PeriodInputs, f \in BOOLEAN :
          begin_get_predictions(r, u, p, per, f)
    \/ \E r \in RequestIds, u \in Users, d \in DomainInputs,
          per \in PeriodInputs : begin_get_growth_report(r, u, d, per)
    \/ \E r \in RequestIds : redis_get(r)
    \/ \E r \in RequestIds : find_one(r)
    \/ \E r \in RequestIds : to_list(r)
    \/ \E r \in RequestIds : store_prediction(r)
    \/ \E r \in RequestIds : redis_set(r)
    \/ RaceTick

\* requests q and r are of the same handler, user and period
SameUserAndPeriod(q, r) ==
    /\ inflight[q].handler = inflight[r].handler
    /\ inflight[q].user_id = inflight[r].user_id
    /\ inflight[q].prediction_period = inflight[r].prediction_period

\* two documents of request r's user, type and period, generated less than
\* 24 hours apart
TwoInOneWindow(collection, r) ==
    \E d, e \in collection :
        /\ d # e
        /\ d.user_id = inflight[r].user_id /\ e.user_id = inflight[r].user_id
        /\ d.type = e.type
        /\ d.type = (IF inflight[r].handler = "get_predictions"
                     THEN "ad_performance" ELSE "seo_growth")
        /\ d.prediction_period = inflight[r].prediction_period
        /\ e.prediction_period = inflight[r].prediction_period
        /\ PyAbs(d.generated_at - e.generated_at) < FreshHours

\* request q has missed the check and inserted its document less than 24
\* hours ago
InsertedInWindow(q) ==
    /\ inflight[q].pc \in {"redis_set", "done"}
    /\ inflight[q].code = 200
    /\ inflight[q].body.source = "freshly_generated"
    /\ now - inflight[q].body.generated_at < FreshHours

\* C28: of two concurrent prediction requests for the same user and period
\* that both missed the freshness check, each inserts a new document: the
\* insert of the second one is made although the first one's document is
\* less than 24 hours old, and leaves two documents generated inside the
\* same 24-hour window.
C28_BothMissBothInsert ==
    [][\A r \in RequestIds : store_prediction(r) =>
          /\ Cardinality(predictions') = Cardinality(predictions) + 1
          /\ \A q \in RequestIds \ {r} :
                (SameUserAndPeriod(q, r) /\ InsertedInWindow(q))
                   => TwoInOneWindow(predictions', r)]_vars

\* both requests, of the same user and period, have returned a freshly
\* generated prediction and the collection holds their two documents,
\* generated less than 24 hours apart
C28_Witness ==
    /\ \A r \in RequestIds :
          /\ inflight[r].pc = "done"
          /\ inflight[r].code = 200
          /\ inflight[r].body.source = "freshly_generated"
    /\ SameUserAndPeriod(1, 2)
    /\ TwoInOneWindow(predictions, 1)

(***************************************************************************)
(* A campaign list read concurrent with a campaign creation:               *)
(* email_marketing/campaigns.py get_campaigns and create_campaign, and     *)
(* RedisService.delete_pattern.  Each action is the code from one await to *)
(* the next; every Redis call succeeds.                                    *)
(***************************************************************************)
MaxCreates == 1
CreateIds == 1..MaxCreates

\* the status query parameter of the list: absent, or a status to filter by
StatusFilters == {NoneVal, "draft"}

\* f"email:campaigns:{user_id}:{status}:..." with the other parameters at
\* their defaults
ListCacheKeys == [user_id : Users, status : StatusFilters]

\* what a list read holds between its awaits
ListRead(pc, user, status, total_count, campaigns, body) ==
    [pc |-> pc, user_id |-> user, status |-> status,
     total_count |-> total_count, campaigns |-> campaigns, body |-> body]
NoListRead == ListRead("not_started", NoneVal, NoneVal, 0, {}, NoEntry)

\* what a creation holds between its awaits; keys is the list delete_pattern
\* collects
Create(pc, user, keys) == [pc |-> pc, user_id |-> user, keys |-> keys]
NoCreate == Create("not_started", NoneVal, {})

\* the ids of the documents query_filter matches
MatchingCampaigns(user, status) ==
    {c \in CampaignIds :
        /\ email_campaigns[c] # NoDoc
        /\ email_campaigns[c].user_id = user
        /\ (Truthy(status) => email_campaigns[c].status = status)}

\* the response of get_campaigns
CampaignsBody(campaigns, total_count) ==
    [campaigns |-> campaigns, total_campaigns |-> total_count]

\* scan_iter(match=f"email:campaigns:{user_id}:*"): the keys that exist
\* and match
ScanKeys(user) ==
    {k \in ListCacheKeys : k.user_id = user /\ list_cache[k] # NoEntry}

\* await self._client.delete(*keys)
DeleteKeys(w) ==
    [k \in ListCacheKeys |->
        IF k \in creates[w].keys THEN NoEntry ELSE list_cache[k]]

\* a client sends GET /campaigns; the handler runs to its first await
begin_get_campaigns(r, user, status) ==
    /\ list_reads[r] = NoListRead
    /\ list_reads' = [list_reads EXCEPT ![r] =
          ListRead("redis_get", user, status, 0, {}, NoEntry)]
    /\ UNCHANGED <<email_vars, creates, list_cache>>
    /\ ListFrame

\* cached_data = await redis_service.get(cache_key); if cached_data: return
get_cached_list(r) ==
    /\ list_reads[r].pc = "redis_get"
    /\ LET cached == list_cache[[user_id |-> list_reads[r].user_id,
                                 status |-> list_reads[r].status]]
       IN list_reads' =
            IF cached # NoEntry
            THEN [list_reads EXCEPT ![r].pc = "done", ![r].body = cached]
            ELSE [list_reads EXCEPT ![r].pc = "count_documents"]
    /\ UNCHANGED <<email_vars, creates, list_cache>>
    /\ ListFrame

\* total_count = await db.email_campaigns.count_documents(query_filter)
count_documents(r) ==
    /\ list_reads[r].pc = "count_documents"
    /\ list_reads' = [list_reads EXCEPT ![r].pc = "to_list",
          ![r].total_count = Cardinality(
              MatchingCampaigns(list_reads[r].user_id, list_reads[r].status))]
    /\ UNCHANGED <<email_vars, creates, list_cache>>
    /\ ListFrame

\* campaigns = await campaigns_cursor.to_list(length=limit), and the
\* response built from it
find_campaigns(r) ==
    /\ list_reads[r].pc = "to_list"
    /\ LET found == MatchingCampaigns(list_reads[r].user_id,
                                      list_reads[r].status)
       IN list_reads' = [list_reads EXCEPT ![r].pc = "redis_set",
             ![r].campaigns = found,
             ![r].body = CampaignsBody(found, list_reads[r].total_count)]
    /\ UNCHANGED <<email_vars, creates, list_cache>>
    /\ ListFrame

\* await redis_service.set(cache_key, response, ttl=300); return response
cache_list(r) ==
    /\ list_reads[r].pc = "redis_set"
    /\ list_cache' = [list_cache EXCEPT
          ![[user_id |-> list_reads[r].user_id,
             status |-> list_reads[r].status]] = list_reads[r].body]
    /\ list_reads' = [list_reads EXCEPT ![r].pc = "done"]
    /\ UNCHANGED <<email_vars, creates>>
    /\ ListFrame

\* a client sends POST /campaigns; the handler runs to its first await
begin_create_campaign(w, user) ==
    /\ creates[w] = NoCreate
    /\ n_campaigns < MaxCampaigns
    /\ creates' = [creates EXCEPT ![w] = Create("insert_one", user, {})]
    /\ UNCHANGED <<email_vars, list_reads, list_cache>>
    /\ ListFrame

\* result = await db.email_campaigns.insert_one(campaign_doc)
insert_campaign(w) ==
    /\ creates[w].pc = "insert_one"
    /\ n_campaigns < MaxCampaigns
    /\ n_campaigns' = n_campaigns + 1
    /\ email_campaigns' = [email_campaigns EXCEPT ![n_campaigns + 1] =
            [user_id |-> creates[w].user_id, status |-> "draft",
             subject |-> "Hello", html_content |-> "<p>hi</p>"]]
    /\ creates' = [creates EXCEPT ![w].pc = "scan_iter"]
    /\ UNCHANGED <<email_scheduled, email_resp, email_cache, list_reads,
                   list_cache>>
    /\ ListFrame

\* delete_pattern: `async for key in self._client.scan_iter(match=pattern)`;
\* with no key found it returns 0 and the handler returns
scan_iter(w) ==
    /\ creates[w].pc = "scan_iter"
    /\ LET keys == ScanKeys(creates[w].user_id)
       IN creates' = [creates EXCEPT ![w].keys = keys,
             ![w].pc = IF keys = {} THEN "done" ELSE "delete"]
    /\ UNCHANGED <<email_vars, list_reads, list_cache>>
    /\ ListFrame

\* delete_pattern: `await self._client.delete(*keys)`; the handler returns
delete_keys(w) ==
    /\ creates[w].pc = "delete"
    /\ list_cache' = DeleteKeys(w)
    /\ creates' = [creates EXCEPT ![w].pc = "done"]
    /\ UNCHANGED <<email_vars, list_reads>>
    /\ ListFrame

\* an email:campaigns:* key reaches its ttl of 300 seconds
list_cache_expire(key) ==
    /\ list_cache[key] # NoEntry
    /\ list_cache' = [list_cache EXCEPT ![key] = NoEntry]
    /\ UNCHANGED <<email_vars, list_reads, creates>>
    /\ ListFrame

ListNext ==
    \/ \E r \in RequestIds, u \in Users, s \in StatusFilters :
          begin_get_campaigns(r, u, s)
    \/ \E r \in RequestIds : get_cached_list(r)
    \/ \E r \in RequestIds : count_documents(r)
    \/ \E r \in RequestIds : find_campaigns(r)
    \/ \E r \in RequestIds : cache_list(r)
    \/ \E w \in CreateIds, u \in Users : begin_create_campaign(w, u)
    \/ \E w \in CreateIds : insert_campaign(w)
    \/ \E w \in CreateIds : scan_iter(w)
    \/ \E w \in CreateIds : delete_keys(w)
    \/ \E k \in ListCacheKeys : list_cache_expire(k)

\* no request is between two of its awaits
AllCompleted ==
    /\ \A r \in RequestIds : list_reads[r].pc \in {"not_started", "done"}
    /\ \A w \in CreateIds : creates[w].pc \in {"not_started", "done"}

\* C30: when a list read that missed the cache has run concurrently with a
\* creation for the same user, then once both have completed the cached
\* list entry does not hold data from before the creation: an entry that
\* exists shows the campaigns the collection holds.
C30_NoStaleListAfterCompletion ==
    AllCompleted =>
       \A k \in ListCacheKeys :
          list_cache[k] # NoEntry =>
             list_cache[k] =
                CampaignsBody(MatchingCampaigns(k.user_id, k.status),
                              Cardinality(MatchingCampaigns(k.user_id, k.status)))

(***************************************************************************)
(* The specifications                                                      *)
(***************************************************************************)
RecsIdle ==
    /\ recommendations = <<>>
    /\ rec_cache = [k \in RecKeys |-> NoEntry]
    /\ rec_resp = NoRespBody

PredIdle ==
    /\ now = StartHour
    /\ predictions = {}
    /\ pred_cache = [k \in PredKeys |-> NoEntry]
    /\ pred_resp = NoRespBody

InboxIdle ==
    /\ inbox_messages = <<>>
    /\ inbox_cache = [k \in InboxKeys |-> NoEntry]
    /\ inbox_resp = InboxResp("none", 0, NoEntry)

CallsIdle ==
    /\ cold_calls = [c \in 1..MaxCalls |-> NoDoc]
    /\ n_calls = 0
    /\ calls_cache = [k \in CallsKeys |-> NoEntry]
    /\ calls_resp = NoRespBody

AggIdle ==
    /\ platform_fetch = [p \in Platforms |-> "no_rows"]
    /\ ads_data = NoAdsData
    /\ module_outcomes = [m \in Slots |-> "empty"]
    /\ dashboard_data = NoDashboard

AppIdle ==
    /\ mongo_reachable = TRUE
    /\ app_phase = "starting"
    /\ startup_error = NoneVal
    /\ health_resp = NoHealth

CacheIdle ==
    /\ redis_reachable = TRUE
    /\ redis_client = NoneVal
    /\ redis_store = [k \in CacheKeys |-> NoEntry]
    /\ cache_resp = CacheResp("none", NoneVal, Returns(NoneVal))

LibIdle ==
    /\ fn_call = NoCall
    /\ fn_result = NoCall

RaceIdle ==
    /\ inflight = [r \in RequestIds |-> NotStarted]
    /\ growth_cache = [k \in GrowthKeys |-> NoEntry]

ListIdle ==
    /\ list_reads = [r \in RequestIds |-> NoListRead]
    /\ creates = [w \in CreateIds |-> NoCreate]
    /\ list_cache = [k \in ListCacheKeys |-> NoEntry]

InitEmail ==
    /\ EmailInit
    /\ PostsInit
    /\ RecsIdle
    /\ PredIdle
    /\ CacheIdle
    /\ AppIdle
    /\ AggIdle
    /\ InboxIdle
    /\ CallsIdle
    /\ LibIdle
    /\ RaceIdle
    /\ ListIdle

InitPosts ==
    /\ EmailInit
    /\ PostsInit
    /\ RecsIdle
    /\ PredIdle
    /\ CacheIdle
    /\ AppIdle
    /\ AggIdle
    /\ InboxIdle
    /\ CallsIdle
    /\ LibIdle
    /\ RaceIdle
    /\ ListIdle

InitRecs ==
    /\ EmailInit
    /\ PostsInit
    /\ RecsInit
    /\ PredIdle
    /\ CacheIdle
    /\ AppIdle
    /\ AggIdle
    /\ InboxIdle
    /\ CallsIdle
    /\ LibIdle
    /\ RaceIdle
    /\ ListIdle

InitPred ==
    /\ EmailInit
    /\ PostsInit
    /\ RecsIdle
    /\ PredInit
    /\ CacheIdle
    /\ AppIdle
    /\ AggIdle
    /\ InboxIdle
    /\ CallsIdle
    /\ LibIdle
    /\ RaceIdle
    /\ ListIdle

InitCache ==
    /\ EmailInit
    /\ PostsInit
    /\ RecsIdle
    /\ PredIdle
    /\ CacheInit
    /\ AppIdle
    /\ AggIdle
    /\ InboxIdle
    /\ CallsIdle
    /\ LibIdle
    /\ RaceIdle
    /\ ListIdle

InitApp ==
    /\ EmailInit
    /\ PostsInit
    /\ RecsIdle
    /\ PredIdle
    /\ CacheInit
    /\ AppInit
    /\ AggIdle
    /\ InboxIdle
    /\ CallsIdle
    /\ LibIdle
    /\ RaceIdle
    /\ ListIdle

InitAgg ==
    /\ EmailInit
    /\ PostsInit
    /\ RecsIdle
    /\ PredIdle
    /\ CacheIdle
    /\ AppIdle
    /\ AggInit
    /\ InboxIdle
    /\ CallsIdle
    /\ LibIdle
    /\ RaceIdle
    /\ ListIdle

InitInbox ==
    /\ EmailInit
    /\ PostsInit
    /\ RecsIdle
    /\ PredIdle
    /\ CacheIdle
    /\ AppIdle
    /\ AggIdle
    /\ InboxInit
    /\ CallsIdle
    /\ LibIdle
    /\ RaceIdle
    /\ ListIdle

SpecEmail == InitEmail /\ [][EmailNext]_vars
SpecEmailReads == InitEmail /\ [][EmailReadNext]_vars

SpecPosts == InitPosts /\ [][PostsNext]_vars

SpecRecs == InitRecs /\ [][RecsNext]_vars

SpecPred == InitPred /\ [][PredNext]_vars

SpecCache == InitCache /\ [][CacheNext]_vars

SpecApp == InitApp /\ [][AppNext]_vars

SpecAgg == InitAgg /\ [][AggNext]_vars

SpecInbox == InitInbox /\ [][InboxNext]_vars

InitCalls ==
    /\ EmailInit
    /\ PostsInit
    /\ RecsIdle
    /\ PredIdle
    /\ CacheIdle
    /\ AppIdle
    /\ AggIdle
    /\ InboxIdle
    /\ CallsInit
    /\ LibIdle
    /\ RaceIdle
    /\ ListIdle

SpecCalls == InitCalls /\ [][CallsNext]_vars

InitLib ==
    /\ EmailInit
    /\ PostsInit
    /\ RecsIdle
    /\ PredIdle
    /\ CacheIdle
    /\ AppIdle
    /\ AggIdle
    /\ InboxIdle
    /\ CallsIdle
    /\ LibInit
    /\ RaceIdle
    /\ ListIdle

SpecLib == InitLib /\ [][LibNext]_vars

InitRace ==
    /\ EmailInit
    /\ PostsInit
    /\ RecsIdle
    /\ CacheIdle
    /\ AppIdle
    /\ AggIdle
    /\ InboxIdle
    /\ CallsIdle
    /\ LibIdle
    /\ RaceInit
    /\ ListIdle

SpecRace == InitRace /\ [][RaceNext]_vars

InitListRace ==
    /\ EmailInit
    /\ PostsInit
    /\ RecsIdle
    /\ PredIdle
    /\ CacheIdle
    /\ AppIdle
    /\ AggIdle
    /\ InboxIdle
    /\ CallsIdle
    /\ LibIdle
    /\ RaceIdle
    /\ ListIdle

SpecListRace == InitListRace /\ [][ListNext]_vars
====
